---- MODULE Spec2Model ----
(***************************************************************************)
(* Verification model of the voice_lang agent core:                        *)
(*   src/src/agent/core.py          StateMachine, Plan, AgentContext        *)
(*   src/src/agent/planner.py       Planner                                 *)
(*   src/src/agent/executor.py      Executor                                *)
(*   src/src/agent/evaluator.py     Evaluator                               *)
(*   src/src/agent/orchestrator.py  VoiceAgent                              *)
(* Each component has its own specification over its own group of          *)
(* variables; the other groups stay at their idle values.                  *)
(***************************************************************************)
EXTENDS Integers, Sequences, FiniteSets, TLC

VARIABLES
    \* ---- StateMachine (core.py) ----
    current_state,        \* StateMachine.current_state
    transition_history,   \* StateMachine.transition_history
    transition_hooks,     \* StateMachine.transition_hooks: event -> list of callbacks
    hook_log,             \* observation: the hook calls made so far, in order
    sm_call,              \* observation: the last StateMachine call and its outcome
    \* ---- Planner.create_plan (planner.py) ----
    pl_call,              \* the last create_plan call: its arguments and its outcome
    \* ---- Planner.replan (planner.py) ----
    rp_plans,             \* the Plan objects the caller holds
    rp_call,              \* observation: the last replan call and its outcome
    rp_ceiling_returned,  \* observation: replan has returned a Plan at the ceiling
    \* ---- Executor.execute_plan (executor.py) ----
    ex_plan,              \* the Plan being executed (tasks, current_task_index, ...)
    ex_results,           \* the results dict of the call
    ex_pc,                \* where the call is: "loop", "await", "returned", "raised"
    ex_obs,               \* observation: tasks started, tools invoked, fatal errors
    \* ---- AgentContext.update_profile (core.py) ----
    cx_profile,           \* AgentContext.user_profile
    cx_call,              \* observation: the last update_profile call and its outcome
    \* ---- Evaluator (evaluator.py) ----
    ev_call,              \* observation: the last Evaluator call and its outcome
    \* ---- VoiceAgent._generate_response (orchestrator.py) ----
    gr_call,              \* observation: the last _generate_response call and its outcome
    \* ---- VoiceAgent (orchestrator.py) ----
    ag_sessions,          \* VoiceAgent.sessions: session id -> its AgentContext
    ag_calls,             \* the process_input call in flight for each session
    ag_last,              \* observation: the last call that ended and how it ended
    ag_asked              \* observation: per session, the contradiction its latest
                          \* calls asked about and how many calls in a row did

smVars == <<current_state, transition_history, transition_hooks, hook_log, sm_call>>

plVars == <<pl_call>>

rpVars == <<rp_plans, rp_call, rp_ceiling_returned>>

exVars == <<ex_plan, ex_results, ex_pc, ex_obs>>

cxVars == <<cx_profile, cx_call>>

evVars == <<ev_call>>

grVars == <<gr_call>>

agVars == <<ag_sessions, ag_calls, ag_last, ag_asked>>

vars == <<smVars, plVars, rpVars, exVars, cxVars, evVars, grVars, agVars>>

None == "None"

\* The groups of variables a specification does not use stay as follows: no
\* call has been made on the component.
IdlePlanner == pl_call = [op |-> None]

IdleReplan ==
    /\ rp_plans = <<>>
    /\ rp_call = [op |-> None]
    /\ rp_ceiling_returned = FALSE

IdleExec ==
    /\ ex_plan = <<>>
    /\ ex_results = <<>>
    /\ ex_pc = None
    /\ ex_obs = <<>>

IdleCtx ==
    /\ cx_profile = <<>>
    /\ cx_call = [op |-> None]

IdleEval == ev_call = [op |-> None]

IdleResponse == gr_call = [op |-> None]

IdleAgent ==
    /\ ag_sessions = <<>>
    /\ ag_calls = <<>>
    /\ ag_last = [op |-> None]
    /\ ag_asked = <<>>

(***************************************************************************)
(* core.py: AgentState and StateMachine                                    *)
(***************************************************************************)
IDLE == "idle"
LISTENING == "listening"
UNDERSTANDING == "understanding"
PLANNING == "planning"
EXECUTING == "executing"
EVALUATING == "evaluating"
RESPONDING == "responding"
WAITING_FOR_INPUT == "waiting_for_input"
ERROR_RECOVERY == "error_recovery"
TERMINATED == "terminated"

AgentState ==
    {IDLE, LISTENING, UNDERSTANDING, PLANNING, EXECUTING, EVALUATING,
     RESPONDING, WAITING_FOR_INPUT, ERROR_RECOVERY, TERMINATED}

VALID_TRANSITIONS ==
    [s \in AgentState |->
        CASE s = IDLE -> {LISTENING, TERMINATED}
          [] s = LISTENING -> {UNDERSTANDING, ERROR_RECOVERY, IDLE}
          [] s = UNDERSTANDING -> {PLANNING, WAITING_FOR_INPUT, ERROR_RECOVERY}
          [] s = PLANNING -> {EXECUTING, ERROR_RECOVERY, WAITING_FOR_INPUT}
          [] s = EXECUTING -> {EVALUATING, ERROR_RECOVERY, WAITING_FOR_INPUT}
          [] s = EVALUATING -> {RESPONDING, PLANNING, ERROR_RECOVERY}
          [] s = RESPONDING -> {IDLE, LISTENING, WAITING_FOR_INPUT}
          [] s = WAITING_FOR_INPUT -> {LISTENING, IDLE, TERMINATED}
          [] s = ERROR_RECOVERY ->
                {ERROR_RECOVERY, WAITING_FOR_INPUT, IDLE, RESPONDING, TERMINATED}
          [] s = TERMINATED -> {}]

\* A mutated lookup: the current state is not consulted, every state is given
\* the targets of IDLE.
can_transition_ignores_source(cur, to_state) ==
    \/ to_state = cur
    \/ to_state \in VALID_TRANSITIONS[IDLE]

\* StateMachine.can_transition, with self.current_state passed as cur.
can_transition(cur, to_state) ==
    \/ to_state = cur
    \/ to_state \in VALID_TRANSITIONS[cur]

\* A mutated guard: the same-state early return is missing.
IsNoOp_missing(cur, to_state) == FALSE

\* `if to_state == self.current_state: return True`
IsNoOp(cur, to_state) == to_state = cur

\* `metadata or {}`: a missing (or empty) metadata argument is recorded as {}.
MetadataOrEmpty(metadata) ==
    IF metadata = None \/ metadata = "{}" THEN "{}" ELSE metadata

\* A mutated record: the target is recorded as the source too.
StateTransition_wrong_source(from_state, to_state, trigger, metadata) ==
    [from_state |-> to_state, to_state |-> to_state,
     trigger |-> trigger, metadata |-> MetadataOrEmpty(metadata)]

\* StateTransition(from_state, to_state, trigger, metadata); the timestamp is
\* not modelled.
StateTransition(from_state, to_state, trigger, metadata) ==
    [from_state |-> from_state, to_state |-> to_state,
     trigger |-> trigger, metadata |-> MetadataOrEmpty(metadata)]

\* An event key f"pre_{state}" / f"post_{state}".
HookEvent(phase, state) == <<phase, state>>

\* self.transition_hooks.get(event, [])
HooksFor(hooks, event) ==
    IF event \in DOMAIN hooks THEN hooks[event] ELSE <<>>

\* A mutated loop: the first hook that raises ends it.
execute_hooks_stops_at_raise(hooks, event, cur, hist) ==
    LET registered == HooksFor(hooks, event)
        ran == IF \E i \in 1..Len(registered) : registered[i] = "hook_raises"
               THEN CHOOSE i \in 1..Len(registered) :
                        /\ registered[i] = "hook_raises"
                        /\ \A j \in 1..(i - 1) : registered[j] # "hook_raises"
               ELSE Len(registered)
    IN  [i \in 1..ran |->
            [event |-> event, hook |-> registered[i],
             state |-> cur, history_len |-> Len(hist)]]

\* StateMachine._execute_hooks: every hook of the event is called in list
\* order; a hook that raises is caught and the loop goes on.  The log entry
\* records what the hook could observe when it ran.
execute_hooks(hooks, event, cur, hist) ==
    [i \in 1..Len(HooksFor(hooks, event)) |->
        [event |-> event, hook |-> HooksFor(hooks, event)[i],
         state |-> cur, history_len |-> Len(hist)]]

\* The bounds of the StateMachine specification.
MaxHistory == 3
MaxHooks == 1

\* The (trigger, metadata) arguments a caller passes.
CallArgs == {<<"user_input_received", "m1">>, <<"session_ended", None>>}

\* The callbacks that can be registered: one that returns, one that raises.
HookIds == {"hook_ok", "hook_raises"}
RegisteredEvents ==
    {HookEvent("pre", LISTENING), HookEvent("post", IDLE), HookEvent("pre", TERMINATED)}

NumHooks(hooks) ==
    Cardinality({<<e, i>> \in (DOMAIN hooks) \X (1..MaxHooks + 1) : i <= Len(hooks[e])})

\* A mutated transition: a rejected call leaves its record in the history
\* before it raises.
transition_result_records_rejected(cur, hist, hooks, to_state, trigger, metadata) ==
    IF IsNoOp(cur, to_state)
    THEN [raised |-> FALSE, state |-> cur, history |-> hist, fired |-> <<>>]
    ELSE IF ~can_transition(cur, to_state)
    THEN [raised |-> TRUE, state |-> cur,
          history |-> Append(hist, StateTransition(cur, to_state, trigger, metadata)),
          fired |-> <<>>]
    ELSE [raised |-> FALSE,
          state |-> to_state,
          history |-> Append(hist, StateTransition(cur, to_state, trigger, metadata)),
          fired |->
              execute_hooks(hooks, HookEvent("pre", to_state), cur, hist)
              \o execute_hooks(hooks, HookEvent("post", cur), to_state,
                               Append(hist, StateTransition(cur, to_state, trigger, metadata)))]

\* A mutated transition: the post-hooks are looked up under the target state.
transition_result_post_of_target(cur, hist, hooks, to_state, trigger, metadata) ==
    IF IsNoOp(cur, to_state)
    THEN [raised |-> FALSE, state |-> cur, history |-> hist, fired |-> <<>>]
    ELSE IF ~can_transition(cur, to_state)
    THEN [raised |-> TRUE, state |-> cur, history |-> hist, fired |-> <<>>]
    ELSE [raised |-> FALSE,
          state |-> to_state,
          history |-> Append(hist, StateTransition(cur, to_state, trigger, metadata)),
          fired |->
              execute_hooks(hooks, HookEvent("pre", to_state), cur, hist)
              \o execute_hooks(hooks, HookEvent("post", to_state), to_state,
                               Append(hist, StateTransition(cur, to_state, trigger, metadata)))]

\* The outcome of StateMachine.transition(to_state, trigger, metadata) on a
\* machine in state cur with history hist and hooks hooks: whether it raised
\* InvalidStateTransitionError, and the state, history and hook calls after it.
transition_result(cur, hist, hooks, to_state, trigger, metadata) ==
    IF IsNoOp(cur, to_state)
    THEN \* idempotent no-op
         [raised |-> FALSE, state |-> cur, history |-> hist, fired |-> <<>>]
    ELSE IF ~can_transition(cur, to_state)
    THEN [raised |-> TRUE, state |-> cur, history |-> hist, fired |-> <<>>]
    ELSE [raised |-> FALSE,
          state |-> to_state,
          history |-> Append(hist, StateTransition(cur, to_state, trigger, metadata)),
          fired |->
              execute_hooks(hooks, HookEvent("pre", to_state), cur, hist)
              \o execute_hooks(hooks, HookEvent("post", cur), to_state,
                               Append(hist, StateTransition(cur, to_state, trigger, metadata)))]

\* The observation of a transition call: its arguments, the state it was made
\* in and how it ended ("True", or the exception raised).
SmCall(to_state, trigger, metadata, raised) ==
    [op |-> "transition", from_state |-> current_state, to_state |-> to_state,
     trigger |-> trigger, metadata |-> metadata,
     result |-> IF raised THEN "InvalidStateTransitionError" ELSE "True"]

\* A call of StateMachine.transition(to_state, trigger, metadata).
transition(to_state, trigger, metadata) ==
    LET r == transition_result(current_state, transition_history, transition_hooks,
                               to_state, trigger, metadata)
    IN  /\ Len(r.history) <= MaxHistory
        /\ current_state' = r.state
        /\ transition_history' = r.history
        /\ hook_log' = hook_log \o r.fired
        /\ sm_call' = SmCall(to_state, trigger, metadata, r.raised)
        /\ UNCHANGED transition_hooks

\* StateMachine.register_hook(event, callback)
register_hook(event, callback) ==
    /\ transition_hooks' =
            [e \in (DOMAIN transition_hooks) \cup {event} |->
                IF e = event
                THEN Append(HooksFor(transition_hooks, e), callback)
                ELSE transition_hooks[e]]
    /\ sm_call' = [op |-> "register_hook", from_state |-> current_state,
                   to_state |-> None, trigger |-> None, metadata |-> None,
                   result |-> None]
    /\ UNCHANGED <<current_state, transition_history, hook_log>>

\* StateMachine.__init__(initial_state = IDLE)
InitStateMachine ==
    /\ current_state = IDLE
    /\ transition_history = <<>>
    /\ transition_hooks = <<>>
    /\ hook_log = <<>>
    /\ sm_call = [op |-> None, from_state |-> None, to_state |-> None,
                  trigger |-> None, metadata |-> None, result |-> None]

TransitionCall ==
    \E to_state \in AgentState, a \in CallArgs : transition(to_state, a[1], a[2])

RegisterHookCall ==
    /\ NumHooks(transition_hooks) < MaxHooks
    /\ \E e \in RegisteredEvents, h \in HookIds : register_hook(e, h)

\* The bounds of the specification of the hooks: the callbacks registered
\* and the transitions recorded.
MaxRegistered == 3
MaxHookedHistory == 2

\* The events hooks are registered for in that specification: besides the
\* events of RegisteredEvents, the event of leaving LISTENING.
HookedEvents == RegisteredEvents \cup {HookEvent("post", LISTENING)}

\* The number of callbacks registered, over all events.
NumRegistered(hooks) ==
    Cardinality({<<e, i>> \in (DOMAIN hooks) \X (1..MaxRegistered + 1) :
                    i <= Len(hooks[e])})

\* A transition call on a machine that may carry several hooks.
HookedTransitionCall ==
    /\ Len(transition_history) < MaxHookedHistory
    /\ \E to_state \in AgentState : transition(to_state, "user_input_received", None)

\* A register_hook call, at any moment between two transition calls.
HookedRegisterCall ==
    /\ NumRegistered(transition_hooks) < MaxRegistered
    /\ \E e \in HookedEvents, h \in HookIds : register_hook(e, h)

(***************************************************************************)
(* The reasoning oracle's replies.  A reply is a text, modelled as a       *)
(* sequence of lexical pieces, and the members the piece "V" stands for:   *)
(*   "{"  "}"   a brace                                                    *)
(*   "V"        the member list of a JSON object ("tasks": [...], ...)     *)
(*   "s"        a JSON value that is not an object (42, "text", [1, 2])    *)
(*   "x"        text that is not JSON and holds no brace                   *)
(***************************************************************************)
Piece == {"{", "}", "V", "s", "x"}

MaxReplyLen == 4

RECURSIVE SeqsUpTo(_, _)
\* All sequences over S of length at most n.
SeqsUpTo(S, n) ==
    IF n = 0 THEN {<<>>}
    ELSE LET shorter == SeqsUpTo(S, n - 1)
         IN  shorter \cup {Append(q, x) : q \in {r \in shorter : Len(r) = n - 1}, x \in S}

\* A task entry of a "tasks" list as the oracle writes it: an object with an
\* optional id, an optional tool_name and dependencies, or a non-object.
TaskEntry(is_dict, id, tool_name, dependencies) ==
    [is_dict |-> is_dict, id |-> id, tool_name |-> tool_name, dependencies |-> dependencies]

Absent == "absent"

TaskEntries ==
    {TaskEntry(FALSE, Absent, None, <<>>),
     TaskEntry(TRUE, "task_1", "scheme_retriever", <<>>),
     TaskEntry(TRUE, Absent, None, <<"task_1">>)}

MaxOracleTasks == 2

\* The "tasks" member: absent, not a list, or a list of entries.
TasksMembers ==
    {[kind |-> Absent, items |-> <<>>], [kind |-> "not_a_list", items |-> <<>>]}
    \cup {[kind |-> "list", items |-> q] : q \in SeqsUpTo(TaskEntries, MaxOracleTasks)}

\* The members of the object the oracle wrote.
Members(tasks, clarifying_questions, missing_info) ==
    [tasks |-> tasks, clarifying_questions |-> clarifying_questions,
     missing_info |-> missing_info]

\* An object with none of the members the planner reads.
NoMembers == Members([kind |-> Absent, items |-> <<>>], Absent, Absent)

\* clarifying_questions / missing_info: absent, an empty list or a list of
\* questions.
ListMembers == {Absent, "empty", "some"}

PlannerMembers ==
    {Members(t, q, IF q = "some" THEN "some" ELSE Absent) :
        t \in TasksMembers, q \in ListMembers}

\* Number of objects in the "tasks" list: their braces are part of the text.
InnerObjects(members) ==
    Cardinality({i \in 1..Len(members.tasks.items) : members.tasks.items[i].is_dict})

Reply(text, members) == [text |-> text, members |-> members]

\* The replies of the planning oracle: every text up to MaxReplyLen pieces;
\* the members matter only when the text holds a "V".
PlannerReplies ==
    {Reply(t, NoMembers) : t \in SeqsUpTo(Piece, MaxReplyLen)}
    \cup {Reply(t, m) : t \in {u \in SeqsUpTo(Piece, MaxReplyLen) :
                                   \E i \in 1..Len(u) : u[i] = "V"},
                        m \in PlannerMembers}

\* json.loads(text): the value, or JSONDecodeError.
json_loads(text, members) ==
    IF text = <<"s">> THEN [ok |-> TRUE, is_dict |-> FALSE, data |-> NoMembers]
    ELSE IF text = <<"{", "}">> THEN [ok |-> TRUE, is_dict |-> TRUE, data |-> NoMembers]
    ELSE IF text = <<"{", "V", "}">> THEN [ok |-> TRUE, is_dict |-> TRUE, data |-> members]
    ELSE [ok |-> FALSE, is_dict |-> FALSE, data |-> NoMembers]

\* Positions of the text that hold an opening / a closing brace.
HoldsBrace(text, members, i, brace) ==
    \/ text[i] = brace
    \/ text[i] = "V" /\ InnerObjects(members) > 0

Min(S) == CHOOSE x \in S : \A y \in S : x <= y
Max(S) == CHOOSE x \in S : \A y \in S : x >= y

\* re.search(r'\{.*\}', response, re.DOTALL): the leftmost "{" that has a "}"
\* after it, up to the last "}" of the text.  found is FALSE when nothing
\* matches; otherwise the match runs from piece first to piece last.
regex_search(text, members) ==
    LET opens == {i \in 1..Len(text) : HoldsBrace(text, members, i, "{")}
        closes == {i \in 1..Len(text) : HoldsBrace(text, members, i, "}")}
        starts == {i \in opens :
                      \E j \in closes : j > i \/ (j = i /\ text[i] = "V")}
    IN  IF starts = {}
        THEN [found |-> FALSE, first |-> 0, last |-> 0]
        ELSE [found |-> TRUE, first |-> Min(starts), last |-> Max(closes)]

\* json.loads(json_match.group()) on the matched text.
json_loads_match(text, members, m) ==
    IF text[m.first] = "{" /\ text[m.last] = "}"
    THEN json_loads(SubSeq(text, m.first, m.last), members)
    ELSE IF m.first = m.last /\ InnerObjects(members) = 1
    THEN \* the match is the single task object of the list
         [ok |-> TRUE, is_dict |-> TRUE, data |-> NoMembers]
    ELSE [ok |-> FALSE, is_dict |-> FALSE, data |-> NoMembers]

\* The fallback of _parse_plan_response:
\* {"tasks": [], "missing_info": [], "clarifying_questions": []}
DefaultPlanData ==
    Members([kind |-> "list", items |-> <<>>], "empty", "empty")

\* Planner._parse_plan_response(response)
parse_plan_response(reply) ==
    LET direct == json_loads(reply.text, reply.members)
        m == regex_search(reply.text, reply.members)
        inner == json_loads_match(reply.text, reply.members, m)
    IN  IF direct.ok
        THEN [raised |-> FALSE, is_dict |-> direct.is_dict, data |-> direct.data]
        ELSE IF m.found
        THEN \* json.loads inside the except block: its error is not caught
             [raised |-> ~inner.ok, is_dict |-> inner.is_dict, data |-> inner.data]
        ELSE [raised |-> FALSE, is_dict |-> TRUE, data |-> DefaultPlanData]

(***************************************************************************)
(* core.py: Task and Plan;  planner.py: Planner                            *)
(***************************************************************************)
PENDING == "pending"
IN_PROGRESS == "in_progress"
COMPLETED == "completed"
FAILED == "failed"
BLOCKED == "blocked"

\* Task(id, description, tool_name, tool_params, dependencies), status PENDING
Task(id, tool_name, dependencies) ==
    [id |-> id, tool_name |-> tool_name, dependencies |-> dependencies,
     status |-> PENDING]

\* Plan(id, goal, tasks, revision_count): current_task_index 0, not complete
Plan(goal, tasks, revision_count) ==
    [goal |-> goal, tasks |-> tasks, current_task_index |-> 0,
     is_complete |-> FALSE, revision_count |-> revision_count]

\* The words a goal is made of, and those of them that contain one of the
\* eligibility_cues as a substring once lowered.
GoalWords == {"find", "housing", "scheme", "Apply", "reapplying", "eligibility"}
Lower(word) == IF word = "Apply" THEN "apply" ELSE word
ContainsCue(lowered) == lowered \in {"apply", "reapplying", "eligibility"}

\* A cue test that compares the goal as it was typed.
wants_eligibility_case_sensitive(goal) ==
    \E i \in 1..Len(goal) : ContainsCue(goal[i])

\* `any(cue in goal_lower for cue in eligibility_cues)`
wants_eligibility(goal) ==
    \E i \in 1..Len(goal) : ContainsCue(Lower(goal[i]))

\* Planner._heuristic_tasks(goal), as the entries _create_tasks is given
heuristic_tasks(goal) ==
    IF wants_eligibility(goal)
    THEN <<TaskEntry(TRUE, "task_1", "eligibility_checker", <<>>),
           TaskEntry(TRUE, "task_2", "scheme_retriever", <<"task_1">>)>>
    ELSE <<TaskEntry(TRUE, "task_1", "scheme_retriever", <<>>)>>

\* f"task_{i+1}", i counting from 0
DefaultTaskId(position) ==
    CASE position = 1 -> "task_1"
      [] position = 2 -> "task_2"
      [] position = 3 -> "task_3"
      [] OTHER -> "task_n"

\* Planner._create_tasks(tasks_data)
create_tasks(tasks_data) ==
    [i \in 1..Len(tasks_data) |->
        Task(IF tasks_data[i].id = Absent THEN DefaultTaskId(i) ELSE tasks_data[i].id,
             tasks_data[i].tool_name,
             tasks_data[i].dependencies)]

\* tasks_are_valid: a non-empty list whose entries are all objects
tasks_are_valid(tasks) ==
    /\ tasks.kind = "list"
    /\ Len(tasks.items) > 0
    /\ \A i \in 1..Len(tasks.items) : tasks.items[i].is_dict

\* `if plan_data.get(key):` the member is present and not empty
Truthy(member) == member = "some"

\* The outcome of Planner.create_plan(goal, context) when the oracle answers
\* reply: it raises (the parser's uncaught JSONDecodeError, or
\* AttributeError from plan_data.get on a value that is no object), or it
\* returns a Plan and stores the members it found in extracted_entities.
create_plan(goal, reply) ==
    LET parsed == parse_plan_response(reply)
        plan_data == parsed.data
        tasks_data == IF tasks_are_valid(plan_data.tasks)
                      THEN plan_data.tasks.items
                      ELSE heuristic_tasks(goal)
    IN  IF parsed.raised
        THEN [raised |-> TRUE, error |-> "JSONDecodeError"]
        ELSE IF ~parsed.is_dict
        THEN [raised |-> TRUE, error |-> "AttributeError"]
        ELSE [raised |-> FALSE,
              error |-> None,
              plan |-> Plan(goal, create_tasks(tasks_data), 0),
              stores_missing_info |-> Truthy(plan_data.missing_info),
              stores_clarifying_questions |-> Truthy(plan_data.clarifying_questions)]

Goals == {<<"find", "housing", "scheme">>, <<"Apply", "housing">>}

\* A create_plan call, answered by the oracle with the reply drawn.
CreatePlanCall ==
    /\ pl_call.op = "pending"
    /\ pl_call' = [op |-> "create_plan", goal |-> pl_call.goal, reply |-> pl_call.reply,
                   result |-> create_plan(pl_call.goal, pl_call.reply)]

\* The goal of the call and the reply the oracle will give are drawn.
InitPlanner ==
    /\ InitStateMachine
    /\ IdleReplan
    /\ IdleExec
    /\ IdleCtx
    /\ IdleEval
    /\ IdleResponse
    /\ IdleAgent
    /\ \E goal \in Goals, reply \in PlannerReplies :
            pl_call = [op |-> "pending", goal |-> goal, reply |-> reply]

NextPlanner == CreatePlanCall /\ UNCHANGED <<smVars, rpVars, exVars, cxVars, evVars, grVars, agVars>>

\* create_plan called with any goal and any oracle reply.
SpecPlanner == InitPlanner /\ [][NextPlanner]_vars


(***************************************************************************)
(* planner.py: Planner.replan                                              *)
(***************************************************************************)
\* settings.max_planning_iterations
max_planning_iterations == 5

\* A mutated check: the ceiling is compared one too high.
exceeds_limit_off_by_one(revision_count) ==
    revision_count > max_planning_iterations + 1

\* `original_plan.revision_count > settings.max_planning_iterations`
exceeds_limit(revision_count) ==
    revision_count > max_planning_iterations

\* What the oracle does when asked: it fails (generate raises) or it replies.
OracleAnswer(fails, reply) == [fails |-> fails, reply |-> reply]

\* The outcome of Planner.replan(original_plan, context, failure_reason) when
\* the oracle answers answer.  original is original_plan after the call: its
\* revision_count is incremented before anything else, whatever follows.
replan(original_plan, answer) ==
    LET original == [original_plan EXCEPT !.revision_count = @ + 1]
        parsed == parse_plan_response(answer.reply)
        plan_data == parsed.data
        tasks_data == IF tasks_are_valid(plan_data.tasks)
                      THEN plan_data.tasks.items
                      ELSE heuristic_tasks(original.goal)
    IN  IF exceeds_limit(original.revision_count)
        THEN [raised |-> TRUE, error |-> "PlanningLimitExceeded", original |-> original]
        ELSE IF answer.fails
        THEN [raised |-> TRUE, error |-> "OracleError", original |-> original]
        ELSE IF parsed.raised
        THEN [raised |-> TRUE, error |-> "JSONDecodeError", original |-> original]
        ELSE IF ~parsed.is_dict
        THEN [raised |-> TRUE, error |-> "AttributeError", original |-> original]
        ELSE [raised |-> FALSE, error |-> None, original |-> original,
              plan |-> Plan(original.goal, create_tasks(tasks_data),
                            original.revision_count)]

\* The number of Plan objects the caller of replan keeps a reference to, and
\* how far past the ceiling a plan's revision_count is followed.
MaxPlanRefs == 2
MaxOverrun == 2

OneTaskMembers ==
    Members([kind |-> "list",
             items |-> <<TaskEntry(TRUE, "task_1", "scheme_retriever", <<>>)>>],
            Absent, Absent)

\* The answers of the oracle to a replanning request: it fails, or it replies
\* with text that is not JSON, with a usable plan, with JSON that is not an
\* object, or with braces around text that is not JSON.
ReplanAnswers ==
    {OracleAnswer(TRUE, Reply(<<>>, NoMembers)),
     OracleAnswer(FALSE, Reply(<<"x">>, NoMembers)),
     OracleAnswer(FALSE, Reply(<<"{", "V", "}">>, OneTaskMembers)),
     OracleAnswer(FALSE, Reply(<<"s">>, NoMembers)),
     OracleAnswer(FALSE, Reply(<<"{", "x", "}">>, NoMembers))}

\* The caller keeps the returned plan: in a new reference while there is
\* room, or in place of a plan it held.
StorePlan(plans, slot, plan) ==
    IF slot = Len(plans) + 1 THEN Append(plans, plan)
    ELSE [plans EXCEPT ![slot] = plan]

\* A replan call on the plan held at index on, answered by answer; a plan
\* returned is kept at index keep.
ReplanCall ==
    \E on \in 1..Len(rp_plans), answer \in ReplanAnswers, keep \in 1..MaxPlanRefs :
        LET r == replan(rp_plans[on], answer)
            mutated == [rp_plans EXCEPT ![on] = r.original]
        IN  /\ rp_plans[on].revision_count < max_planning_iterations + MaxOverrun
            /\ keep <= Len(rp_plans) + 1
            /\ rp_plans' = IF r.raised THEN mutated ELSE StorePlan(mutated, keep, r.plan)
            /\ rp_call' = [op |-> "replan",
                           before |-> rp_plans[on].revision_count,
                           raised |-> r.raised,
                           error |-> r.error,
                           returned |-> IF r.raised THEN -1 ELSE r.plan.revision_count,
                           ceiling_was_reached |-> rp_ceiling_returned]
            /\ rp_ceiling_returned' =
                   (\/ rp_ceiling_returned
                    \/ ~r.raised /\ r.plan.revision_count >= max_planning_iterations)

\* The caller holds one plan, as create_plan returned it.
InitReplan ==
    /\ InitStateMachine
    /\ IdlePlanner
    /\ IdleExec
    /\ IdleCtx
    /\ IdleEval
    /\ IdleResponse
    /\ IdleAgent
    /\ \E goal \in Goals :
           rp_plans = <<Plan(goal, create_tasks(heuristic_tasks(goal)), 0)>>
    /\ rp_call = [op |-> None]
    /\ rp_ceiling_returned = FALSE

NextReplan == ReplanCall /\ UNCHANGED <<smVars, plVars, exVars, cxVars, evVars, grVars, agVars>>

\* replan called any number of times on the plans the caller holds.
SpecReplan == InitReplan /\ [][NextReplan]_vars


(***************************************************************************)
(* executor.py: Executor                                                   *)
(***************************************************************************)
\* The tools main.py registers with the ToolRegistry.
RegisteredTools == {"eligibility_checker", "scheme_retriever", "application_helper"}

\* The state of one execute_plan call: the plan, the results dict as the call
\* initialises it, the position of the call and what has been observed of it.
\* pc is "loop" at the head of the while loop, "await" while tool.execute is
\* awaited, "returned" after the return and "raised" when an exception has
\* left the call.
Execution(plan) ==
    [plan |-> plan,
     results |-> [tasks_completed |-> 0, tasks_failed |-> 0,
                  task_results |-> <<>>, final_status |-> "success"],
     pc |-> "loop",
     obs |-> [visited |-> <<>>, started |-> <<>>, invoked |-> <<>>, fatal |-> 0]]

\* Plan.get_current_task: the position of the current task in tasks, 0 for
\* None.
get_current_task(plan) ==
    IF plan.current_task_index < Len(plan.tasks)
    THEN plan.current_task_index + 1
    ELSE 0

\* A mutated advance: the index stays where it is while tasks remain.
advance_stays(plan) ==
    [plan EXCEPT !.is_complete = IF plan.current_task_index + 1 >= Len(plan.tasks)
                                 THEN TRUE ELSE @]

\* Plan.advance
advance(plan) ==
    [plan EXCEPT !.current_task_index = @ + 1,
                 !.is_complete = IF plan.current_task_index + 1 >= Len(plan.tasks)
                                 THEN TRUE ELSE @]

\* `next((t for t in plan.tasks if t.id == dep_id), None)`: the position of
\* the first task with that id, 0 for None.
first_with_id(tasks, dep_id) ==
    IF \E j \in 1..Len(tasks) : tasks[j].id = dep_id
    THEN Min({j \in 1..Len(tasks) : tasks[j].id = dep_id})
    ELSE 0

\* A mutated check: a dependency id that names no task counts as met.
check_dependencies_missing_is_met(task, plan) ==
    \A k \in 1..Len(task.dependencies) :
        LET j == first_with_id(plan.tasks, task.dependencies[k])
        IN  j = 0 \/ plan.tasks[j].status = COMPLETED

\* A mutated check: a dependency that has not been reached yet counts as met.
check_dependencies_pending_is_met(task, plan) ==
    \A k \in 1..Len(task.dependencies) :
        LET j == first_with_id(plan.tasks, task.dependencies[k])
        IN  j # 0 /\ plan.tasks[j].status \in {COMPLETED, PENDING}

\* Executor._check_dependencies(task, plan)
check_dependencies(task, plan) ==
    \A k \in 1..Len(task.dependencies) :
        LET j == first_with_id(plan.tasks, task.dependencies[k])
        IN  j # 0 /\ plan.tasks[j].status = COMPLETED

\* A mutated failure handler: every failure marks the sweep "failed".
status_after_failure_always_failed(final_status, recoverable) == "failed"

\* `if not e.recoverable: results["final_status"] = "failed"`
status_after_failure(final_status, recoverable) ==
    IF recoverable THEN final_status ELSE "failed"

\* A mutated end of execute_plan: the sweep returns without the
\* partial_success adjustment.
finish_sweep_without_adjustment(e) ==
    [e EXCEPT !.pc = "returned"]

\* The end of execute_plan: partial_success when a task failed and the sweep
\* is not "failed"; then the return.
finish_sweep(e) ==
    [e EXCEPT !.pc = "returned",
              !.results.final_status =
                  IF e.results.tasks_failed > 0 /\ @ # "failed"
                  THEN "partial_success" ELSE @]

\* The task at position i is recorded under status with the error text.
task_result(e, i, status, error) ==
    [e EXCEPT !.results.task_results =
                  Append(@, [task_id |-> e.plan.tasks[i].id, status |-> status,
                             error |-> error])]

\* A mutated try branch: the task is COMPLETED and counted, but no entry is
\* appended to task_results.
task_completed_unrecorded(e, i) ==
    [e EXCEPT !.plan = advance([@ EXCEPT !.tasks[i].status = COMPLETED]),
              !.results.tasks_completed = @ + 1,
              !.pc = "loop"]

\* The try branch after execute_task has returned: the task is COMPLETED and
\* counted, then plan.advance().
task_completed(e, i) ==
    [task_result(e, i, "success", None)
        EXCEPT !.plan = advance([@ EXCEPT !.tasks[i].status = COMPLETED]),
               !.results.tasks_completed = @ + 1,
               !.pc = "loop"]

\* A mutated failure handler: a recoverable failure is counted and the sweep
\* goes on, but the task keeps the status execute_task gave it.
task_failed_keeps_status(e, i, error, recoverable) ==
    LET failed == [task_result(e, i, "failed", error)
                      EXCEPT !.plan.tasks[i].status = IF recoverable THEN @ ELSE FAILED,
                             !.results.tasks_failed = @ + 1,
                             !.results.final_status = status_after_failure(@, recoverable),
                             !.obs.fatal = IF recoverable THEN @ ELSE @ + 1]
    IN  IF recoverable
        THEN [failed EXCEPT !.plan = advance(@), !.pc = "loop"]
        ELSE finish_sweep(failed)

\* The except ExecutionError branch: the task is FAILED and counted; a
\* non-recoverable error marks the sweep "failed" and breaks out of the loop,
\* a recoverable one goes on to plan.advance().
task_failed(e, i, error, recoverable) ==
    LET failed == [task_result(e, i, "failed", error)
                      EXCEPT !.plan.tasks[i].status = FAILED,
                             !.results.tasks_failed = @ + 1,
                             !.results.final_status = status_after_failure(@, recoverable),
                             !.obs.fatal = IF recoverable THEN @ ELSE @ + 1]
    IN  IF recoverable
        THEN [failed EXCEPT !.plan = advance(@), !.pc = "loop"]
        ELSE finish_sweep(failed)

\* A mutated test: a task whose tool is not registered is taken for a
\* reasoning step as well.
is_reasoning_step_or_unregistered(task) ==
    task.tool_name \notin RegisteredTools

\* `if not task.tool_name`: the task names no tool (None or the empty string);
\* execute_task returns "Reasoning step completed" for it.
is_reasoning_step(task) ==
    task.tool_name \in {None, ""}

\* One pass of the while loop of execute_plan, from its head to the await of
\* tool.execute, to the end of the pass or to the return: the loop exits when
\* the plan is complete or has no current task; a task with unmet
\* dependencies is BLOCKED and skipped; execute_task sets IN_PROGRESS, returns
\* at once for a task without tool_name, raises a non-recoverable
\* ExecutionError for a tool that is not registered, and otherwise calls the
\* tool.
execute_plan_pass(e) ==
    LET i == get_current_task(e.plan)
        visited == [e EXCEPT !.obs.visited = Append(@, i)]
        started == [visited EXCEPT !.plan.tasks[i].status = IN_PROGRESS,
                                   !.obs.started = Append(@, i)]
    IN  IF e.plan.is_complete \/ i = 0
        THEN finish_sweep(e)
        ELSE IF ~check_dependencies(e.plan.tasks[i], e.plan)
        THEN [task_result(visited, i, "blocked", "Dependencies not met")
                 EXCEPT !.plan = advance([@ EXCEPT !.tasks[i].status = BLOCKED])]
        ELSE IF is_reasoning_step(e.plan.tasks[i])
        THEN task_completed(started, i)
        ELSE IF e.plan.tasks[i].tool_name \notin RegisteredTools
        THEN task_failed(started, i, "Tool not found", FALSE)
        ELSE [started EXCEPT !.pc = "await", !.obs.invoked = Append(@, i)]

\* What the awaited tool.execute does: it returns a dict, it raises, or it
\* returns a value that is no container (None, a number).
ToolOutcomes == {"returns", "raises", "returns_non_container"}

\* execute_task and execute_plan after tool.execute: a returned value
\* completes the task; any exception of the tool becomes a recoverable
\* ExecutionError; a value that is no container makes
\* _update_context_from_result raise TypeError on its `in` test, after the
\* task has been counted and before plan.advance(), and the TypeError leaves
\* execute_plan.
tool_execute_done(e, outcome) ==
    LET i == get_current_task(e.plan)
    IN  CASE outcome = "returns" -> task_completed(e, i)
          [] outcome = "raises" -> task_failed(e, i, "tool raised", TRUE)
          [] OTHER ->
                [task_result(e, i, "success", None)
                    EXCEPT !.plan.tasks[i].status = COMPLETED,
                           !.results.tasks_completed = @ + 1,
                           !.pc = "raised"]

\* The plans handed to execute_plan: up to MaxExecTasks tasks; ids may repeat;
\* a task has no tool_name, a registered tool or a tool that is not
\* registered; its dependencies name itself, an earlier or a later task, or
\* no task at all ("z").
MaxExecTasks == 3

ExecTasks ==
    {Task(id, tool_name, dependencies) :
        id \in {"a", "b"},
        tool_name \in {None, "scheme_retriever", "ghost"},
        dependencies \in {<<>>, <<"a">>, <<"b", "z">>}}

ExecutionNow ==
    [plan |-> ex_plan, results |-> ex_results, pc |-> ex_pc, obs |-> ex_obs]

SetExecution(e) ==
    /\ ex_plan' = e.plan
    /\ ex_results' = e.results
    /\ ex_pc' = e.pc
    /\ ex_obs' = e.obs

\* The call runs one pass of its loop.
ExecutePlanPass ==
    /\ ex_pc = "loop"
    /\ SetExecution(execute_plan_pass(ExecutionNow))

\* The awaited tool call ends.
ToolExecuteDone ==
    /\ ex_pc = "await"
    /\ \E outcome \in ToolOutcomes :
           SetExecution(tool_execute_done(ExecutionNow, outcome))

(***************************************************************************)
(* core.py: AgentContext.update_profile                                    *)
(***************************************************************************)
\* A user_profile entry.  An entry written without a contradiction has no
\* previous_value and no contradiction_detected key: previous_value is Absent
\* and the flag, read with .get(), is falsy.
ProfileEntry(value, source, previous_value, contradiction_detected) ==
    [value |-> value, source |-> source, previous_value |-> previous_value,
     contradiction_detected |-> contradiction_detected]

\* A mutated test: every rewrite of a stored field counts as a contradiction.
is_contradiction_on_any_rewrite(profile, key, value) == key \in DOMAIN profile

\* `key in self.user_profile` and `existing.get("value") != value`
is_contradiction(profile, key, value) ==
    /\ key \in DOMAIN profile
    /\ profile[key].value # value

\* AgentContext.update_profile(key, value, source): the profile after the
\* call and the value returned.
update_profile(profile, key, value, source) ==
    [returned |-> is_contradiction(profile, key, value),
     profile |->
        [k \in (DOMAIN profile) \cup {key} |->
            IF k # key THEN profile[k]
            ELSE IF is_contradiction(profile, key, value)
            THEN ProfileEntry(value, source, profile[key].value, TRUE)
            ELSE ProfileEntry(value, source, Absent, FALSE)]]

ProfileKeys == {"age", "income"}
ProfileValues == {"v1", "v2"}
ProfileSources == {"user", "extracted"}

\* A call of update_profile on the context.
UpdateProfileCall ==
    \E key \in ProfileKeys, value \in ProfileValues, source \in ProfileSources :
        LET r == update_profile(cx_profile, key, value, source)
        IN  /\ cx_profile' = r.profile
            /\ cx_call' = [op |-> "update_profile", key |-> key, value |-> value,
                           had_entry |-> key \in DOMAIN cx_profile,
                           old_value |-> IF key \in DOMAIN cx_profile
                                         THEN cx_profile[key].value ELSE Absent,
                           returned |-> r.returned]


\* execute_plan is called on a plan as the planner builds it: every task
\* PENDING, current_task_index 0.
InitExec ==
    /\ InitStateMachine
    /\ IdlePlanner
    /\ IdleReplan
    /\ IdleCtx
    /\ IdleEval
    /\ IdleResponse
    /\ IdleAgent
    /\ \E tasks \in SeqsUpTo(ExecTasks, MaxExecTasks) :
           LET e == Execution(Plan(<<"find", "housing">>, tasks, 0))
           IN  /\ ex_plan = e.plan
               /\ ex_results = e.results
               /\ ex_pc = e.pc
               /\ ex_obs = e.obs

NextExec ==
    \/ ExecutePlanPass /\ UNCHANGED <<smVars, plVars, rpVars, cxVars, evVars, grVars, agVars>>
    \/ ToolExecuteDone /\ UNCHANGED <<smVars, plVars, rpVars, cxVars, evVars, grVars, agVars>>

\* One execute_plan call in which the event loop keeps running the call and
\* every awaited tool call ends, by returning or by raising.
\* The plans are those of InitExec whose tasks all name a tool, registered or
\* not.
InitExecFair ==
    /\ InitExec
    /\ \A i \in 1..Len(ex_plan.tasks) : ex_plan.tasks[i].tool_name # None

SpecExecFair == InitExecFair /\ [][NextExec]_vars /\ WF_vars(NextExec)

\* One execute_plan call, with every outcome of every tool call.
SpecExec == InitExec /\ [][NextExec]_vars

\* An AgentContext as __init__ leaves it.
InitCtx ==
    /\ InitStateMachine
    /\ IdlePlanner
    /\ IdleReplan
    /\ IdleExec
    /\ IdleCtx
    /\ IdleEval
    /\ IdleResponse
    /\ IdleAgent

NextCtx ==
    UpdateProfileCall /\ UNCHANGED <<smVars, plVars, rpVars, exVars, evVars, grVars, agVars>>

\* update_profile called any number of times on one context.
SpecCtx == InitCtx /\ [][NextCtx]_vars

(***************************************************************************)
(* evaluator.py: ContradictionResolver.resolve_contradiction               *)
(***************************************************************************)
\* A mutated resolver: the confirmed value is stored through update_profile.
resolve_contradiction_through_update_profile(profile, key, confirmed_value) ==
    [returned |-> key \in DOMAIN profile,
     profile |-> IF key \in DOMAIN profile
                 THEN update_profile(profile, key, confirmed_value, "user_confirmed").profile
                 ELSE profile]

\* ContradictionResolver.resolve_contradiction(context, key, confirmed_value):
\* the profile after the call and the value returned.  The entry written has
\* no previous_value key; its key "resolved" is read nowhere and is left out.
resolve_contradiction(profile, key, confirmed_value) ==
    [returned |-> key \in DOMAIN profile,
     profile |-> IF key \in DOMAIN profile
                 THEN [profile EXCEPT ![key] =
                          ProfileEntry(confirmed_value, "user_confirmed", Absent, FALSE)]
                 ELSE profile]

\* VoiceAgent._check_for_contradictions: the fields of the items it returns.
reported_fields(profile) ==
    {k \in DOMAIN profile : profile[k].contradiction_detected}

\* A call of resolve_contradiction on the context.
ResolveContradictionCall ==
    \E key \in ProfileKeys, value \in ProfileValues :
        LET r == resolve_contradiction(cx_profile, key, value)
        IN  /\ cx_profile' = r.profile
            /\ cx_call' = [op |-> "resolve_contradiction", key |-> key, value |-> value,
                           had_entry |-> key \in DOMAIN cx_profile,
                           old_value |-> IF key \in DOMAIN cx_profile
                                         THEN cx_profile[key].value ELSE Absent,
                           returned |-> r.returned]

NextResolve ==
    \/ UpdateProfileCall /\ UNCHANGED <<smVars, plVars, rpVars, exVars, evVars, grVars, agVars>>
    \/ ResolveContradictionCall /\ UNCHANGED <<smVars, plVars, rpVars, exVars, evVars, grVars, agVars>>

\* update_profile and resolve_contradiction called any number of times, in
\* any order, on one context.
SpecResolve == InitCtx /\ [][NextResolve]_vars


(***************************************************************************)
(* planner.py: the heuristic fallback of create_plan and replan            *)
(***************************************************************************)
MaxHeuristicReplyLen == 3

\* Goals with a cue in capitals, a cue inside a longer word, and no cue.
HeuristicGoals == Goals \cup {<<"find", "reapplying">>}

\* The replies of the oracle to a planning or replanning request, up to
\* MaxHeuristicReplyLen pieces.
HeuristicReplies ==
    {Reply(t, NoMembers) : t \in SeqsUpTo(Piece, MaxHeuristicReplyLen)}
    \cup {Reply(t, m) : t \in {u \in SeqsUpTo(Piece, MaxHeuristicReplyLen) :
                                   \E i \in 1..Len(u) : u[i] = "V"},
                        m \in PlannerMembers}

\* The plan replan is called on: its tasks are not those of the heuristic.
PlanToRevise(goal) ==
    Plan(goal, create_tasks(<<TaskEntry(TRUE, "task_1", "application_helper", <<>>)>>), 0)

\* create_plan(goal, ...) or replan(plan with that goal, ...), answered by
\* the oracle with the reply drawn.
PlanningCall ==
    /\ pl_call.op = "pending"
    /\ pl_call' = [op |-> pl_call.method, goal |-> pl_call.goal, reply |-> pl_call.reply,
                   result |-> IF pl_call.method = "create_plan"
                              THEN create_plan(pl_call.goal, pl_call.reply)
                              ELSE replan(PlanToRevise(pl_call.goal),
                                          OracleAnswer(FALSE, pl_call.reply))]

\* The method called, its goal and the reply the oracle will give are drawn.
InitHeuristic ==
    /\ InitStateMachine
    /\ IdleReplan
    /\ IdleExec
    /\ IdleCtx
    /\ IdleEval
    /\ IdleResponse
    /\ IdleAgent
    /\ \E method \in {"create_plan", "replan"}, goal \in HeuristicGoals,
          reply \in HeuristicReplies :
            pl_call = [op |-> "pending", method |-> method, goal |-> goal,
                       reply |-> reply]

NextHeuristic ==
    PlanningCall /\ UNCHANGED <<smVars, rpVars, exVars, cxVars, evVars, grVars, agVars>>

\* create_plan or replan called with any goal and any oracle reply.
SpecHeuristic == InitHeuristic /\ [][NextHeuristic]_vars

(***************************************************************************)
(* evaluator.py: Evaluator.evaluate                                        *)
(* The reply of the oracle is a text of pieces as above; the piece "V"     *)
(* stands for the members of the verdict object.  Numbers are hundredths.  *)
(***************************************************************************)
\* settings.confidence_threshold (0.7), in hundredths
confidence_threshold == 70

\* eval_data.get("confidence", 0.5), in hundredths
default_confidence == 50

MaxEvalReplyLen == 3

\* The members of the verdict the oracle wrote.  success and
\* needs_replanning: absent, "true" or "false"; confidence: absent, null or
\* a number; contradictions and suggestions: absent, a list or null.
Verdict(success, confidence, needs_replanning, contradictions, suggestions) ==
    [success |-> success, confidence |-> confidence,
     needs_replanning |-> needs_replanning, contradictions |-> contradictions,
     suggestions |-> suggestions]

\* The "confidence" member: absent, null, or a number of hundredths.
Confidence(given, number) == [given |-> given, number |-> number]

\* An object with none of the members evaluate reads.
NoVerdict == Verdict(Absent, Confidence(Absent, 0), Absent, Absent, Absent)

Confidences ==
    {Confidence(Absent, 0), Confidence("null", 0)}
    \cup {Confidence("number", n) :
            n \in {0, confidence_threshold - 1, confidence_threshold, 100}}

Verdicts ==
    {Verdict(s, c, n, k, g) :
        s \in {Absent, "true", "false"}, c \in Confidences,
        n \in {Absent, "true", "false"},
        k \in {Absent, "list", "null"}, g \in {"list", "null"}}

EvaluatorReply(text, verdict) == [text |-> text, verdict |-> verdict]

\* The replies of the evaluating oracle: every text up to MaxEvalReplyLen
\* pieces; the verdict matters only when the text holds a "V".
EvaluatorReplies ==
    {EvaluatorReply(t, NoVerdict) : t \in SeqsUpTo(Piece, MaxEvalReplyLen)}
    \cup {EvaluatorReply(t, v) : t \in {u \in SeqsUpTo(Piece, MaxEvalReplyLen) :
                                           \E i \in 1..Len(u) : u[i] = "V"},
                                 v \in Verdicts}

\* The value json.loads gives for a text it accepts: the verdict when the
\* text is the object that holds it, an object without members or a value
\* that is no object otherwise.
loaded_verdict(text, verdict) ==
    IF text = <<"{", "V", "}">> THEN verdict ELSE NoVerdict

\* The fallback of _parse_evaluation_response:
\* {"success": False, "confidence": 0.5, "needs_replanning": True, ...}
DefaultEvalData ==
    Verdict("false", Confidence("number", default_confidence), "true", "list", "list")

\* A parser that gives the fallback for every reply json.loads rejects and
\* for every value that is not an object.
parse_evaluation_response_total(reply) ==
    IF json_loads(reply.text, NoMembers).ok /\ json_loads(reply.text, NoMembers).is_dict
    THEN [raised |-> FALSE, is_dict |-> TRUE,
          data |-> loaded_verdict(reply.text, reply.verdict)]
    ELSE [raised |-> FALSE, is_dict |-> TRUE, data |-> DefaultEvalData]

\* Evaluator._parse_evaluation_response(response)
parse_evaluation_response(reply) ==
    LET direct == json_loads(reply.text, NoMembers)
        m == regex_search(reply.text, NoMembers)
        inner == json_loads_match(reply.text, NoMembers, m)
    IN  IF direct.ok
        THEN [raised |-> FALSE, is_dict |-> direct.is_dict,
              data |-> loaded_verdict(reply.text, reply.verdict)]
        ELSE IF m.found
        THEN \* json.loads inside the except block: its error is not caught
             [raised |-> ~inner.ok, is_dict |-> inner.is_dict,
              data |-> loaded_verdict(SubSeq(reply.text, m.first, m.last),
                                      reply.verdict)]
        ELSE [raised |-> FALSE, is_dict |-> TRUE, data |-> DefaultEvalData]

\* dict.get(key, default) of a boolean member
get(member, default) == IF member = Absent THEN default ELSE member = "true"

\* A gate that leaves the oracle's needs_replanning as it is when the
\* oracle reports success.
gated_needs_replanning_trusts_success(success, confidence, needs_replanning) ==
    IF confidence < confidence_threshold /\ ~success THEN TRUE ELSE needs_replanning

\* `if result.confidence < settings.confidence_threshold:
\*      result.needs_replanning = True`
gated_needs_replanning(success, confidence, needs_replanning) ==
    IF confidence < confidence_threshold THEN TRUE ELSE needs_replanning

\* An evaluate call that raises error
EvaluateRaises(error) ==
    [raised |-> TRUE, error |-> error, success |-> FALSE, confidence |-> 0,
     needs_replanning |-> FALSE]

\* Evaluator.evaluate: the EvaluationResult returned, as far as its success,
\* confidence and needs_replanning go, or the exception raised.
evaluate(answer) ==
    LET parsed == parse_evaluation_response(answer.reply)
        data == parsed.data
        confidence == IF data.confidence.given = Absent THEN default_confidence
                      ELSE data.confidence.number
    IN  IF answer.fails THEN EvaluateRaises("OracleError")
        ELSE IF parsed.raised THEN EvaluateRaises("JSONDecodeError")
        ELSE IF ~parsed.is_dict
        THEN EvaluateRaises("AttributeError")    \* eval_data.get on a non-dict
        ELSE IF data.contradictions = "null"
        THEN EvaluateRaises("AttributeError")    \* result.contradictions.extend
        ELSE IF data.confidence.given = "null"
        THEN EvaluateRaises("TypeError")         \* None < threshold
        ELSE IF confidence < confidence_threshold /\ data.suggestions = "null"
        THEN EvaluateRaises("AttributeError")    \* result.suggestions.append
        ELSE [raised |-> FALSE, error |-> None,
              success |-> get(data.success, FALSE),
              confidence |-> confidence,
              needs_replanning |->
                  gated_needs_replanning(get(data.success, FALSE), confidence,
                                         get(data.needs_replanning, FALSE))]

\* The answers of the oracle to an evaluation request.
EvaluatorAnswers ==
    {[fails |-> TRUE, reply |-> EvaluatorReply(<<>>, NoVerdict)]}
    \cup {[fails |-> FALSE, reply |-> r] : r \in EvaluatorReplies}

\* An evaluate call, answered by the oracle with the answer drawn.
EvaluateCall ==
    /\ ev_call.op = "pending"
    /\ ev_call' = [op |-> "evaluate", answer |-> ev_call.answer,
                   parsed |-> parse_evaluation_response(ev_call.answer.reply),
                   result |-> evaluate(ev_call.answer)]

\* The answer the oracle will give is drawn.
InitEval ==
    /\ InitStateMachine
    /\ IdlePlanner
    /\ IdleReplan
    /\ IdleExec
    /\ IdleCtx
    /\ IdleResponse
    /\ IdleAgent
    /\ \E answer \in EvaluatorAnswers : ev_call = [op |-> "pending", answer |-> answer]

NextEval ==
    EvaluateCall /\ UNCHANGED <<smVars, plVars, rpVars, exVars, cxVars, grVars, agVars>>

\* An Evaluator whose evaluate is called with arbitrary oracle answers.
SpecEval == InitEval /\ [][NextEval]_vars

(***************************************************************************)
(* evaluator.py: Evaluator.evaluate_input_quality                          *)
(* A transcribed text is the sequence of its words, as split() gives them; *)
(* the whitespace around and between the words plays no part in any test.  *)
(* A confidence is a number of hundredths.                                 *)
(***************************************************************************)
\* str.lower() on the words of the vocabulary.
lower(word) == IF word = "HELP" THEN "help" ELSE word

\* `(transcribed_text or "").strip().lower()`, as the sequence of its words.
normalized(words) == [i \in 1..Len(words) |-> lower(words[i])]

\* allow_short_intents: the English phrases.  The set also holds phrases of
\* the same kind in Tamil, Hindi and Marathi, which no text of the
\* vocabulary equals.
allow_short_intents ==
    {<<"help">>, <<"help", "me">>, <<"need", "help">>, <<"support">>, <<"assist">>}

\* `confidence < 0.5`
low_confidence_threshold == 50

\* `"needs_confirmation": confidence < 0.7`
needs_confirmation_threshold == 70

\* A mutated test: the allow-list is not consulted.
is_too_short_without_allow_list(words) == Len(words) < 2

\* `len(transcribed_text.split()) < 2 and normalized not in allow_short_intents`
is_too_short(words) ==
    Len(words) < 2 /\ normalized(words) \notin allow_short_intents

\* `sum(1 for i in range(len(words)-1) if words[i] == words[i+1])`
consecutive_repeats(words) ==
    Cardinality({i \in 1..(Len(words) - 1) : words[i] = words[i + 1]})

\* `if len(words) > 2: ... if consecutive_repeats > 2`
is_potential_error(words) ==
    Len(words) > 2 /\ consecutive_repeats(words) > 2

\* Evaluator.evaluate_input_quality(transcribed_text, confidence): the issue
\* types in the order the checks append them, and the dict returned.
evaluate_input_quality(words, confidence) ==
    LET issues ==
            (IF confidence < low_confidence_threshold THEN <<"low_confidence">> ELSE <<>>)
            \o (IF is_too_short(words) THEN <<"too_short">> ELSE <<>>)
            \o (IF is_potential_error(words) THEN <<"potential_error">> ELSE <<>>)
    IN  [is_reliable |-> Len(issues) = 0,
         confidence |-> confidence,
         issues |-> issues,
         needs_confirmation |-> confidence < needs_confirmation_threshold]

\* The words of the transcribed texts and the longest text.
InputWords == {"hi", "help", "HELP", "me"}
MaxInputWords == 4

\* The confidences the recogniser reports, in hundredths.
InputConfidences == {30, 49, 50, 90}

\* An evaluate_input_quality call on the text and confidence drawn.
EvaluateInputQualityCall ==
    /\ ev_call.op = "pending_input"
    /\ ev_call' = [op |-> "evaluate_input_quality",
                   text |-> ev_call.text,
                   confidence |-> ev_call.confidence,
                   result |-> evaluate_input_quality(ev_call.text, ev_call.confidence)]

\* The text and the confidence of the call are drawn.
InitInputQuality ==
    /\ InitStateMachine
    /\ IdlePlanner
    /\ IdleReplan
    /\ IdleExec
    /\ IdleCtx
    /\ IdleResponse
    /\ IdleAgent
    /\ \E words \in SeqsUpTo(InputWords, MaxInputWords), confidence \in InputConfidences :
           ev_call = [op |-> "pending_input", text |-> words, confidence |-> confidence]

NextInputQuality ==
    EvaluateInputQualityCall /\ UNCHANGED <<smVars, plVars, rpVars, exVars, cxVars, grVars, agVars>>

\* An Evaluator whose evaluate_input_quality is called with arbitrary texts.
SpecInputQuality == InitInputQuality /\ [][NextInputQuality]_vars


(***************************************************************************)
(* orchestrator.py: VoiceAgent._generate_response (language "english")     *)
(* A reply of the oracle is what json.loads makes of it, and for an object *)
(* the kind of its "response" member.                                      *)
(***************************************************************************)
\* The replies: the empty text and text that is not JSON (json.loads
\* raises), JSON that is no object (.get raises), and an object with its
\* "response" member.
ResponseReplies ==
    {[json |-> j, response |-> Absent] : j \in {"empty", "not_json", "not_an_object"}}
    \cup {[json |-> "object", response |-> r] :
            r \in {Absent, "null", "", "blank", "not_a_string",
                   "Your response to the user", "<Your Response To The User>",
                   "As an AI I cannot help", "You may apply to scheme 1",
                   "Thank you for the details"}}

\* `(response_data.get("response") or "").strip()`
response_text(reply) ==
    IF reply.response \in {Absent, "null", "", "blank"} THEN "" ELSE reply.response

\* placeholder_texts (the English entries) and the normalized comparison:
\* `response_text.strip().strip("<>").strip().lower() == "your response to the user"`
is_placeholder(text) ==
    text \in {"Your response to the user", "<Your Response To The User>"}

\* VoiceAgent._is_unusable_response_text, for a language other than Tamil:
\* empty text or one of the obvious_bad phrases ("as an ai", "i cannot").
is_unusable_response_text(text) ==
    text \in {"", "As an AI I cannot help"}

\* The longest list of schemes a tool stores.
MaxSchemes == 4

\* eligible_schemes / retrieved_schemes of extracted_entities: absent (or
\* empty), or a list of schemes; a scheme is named by its number ("scheme 1",
\* "scheme 2", ...).
SchemeLists == {[i \in 1..n |-> i] : n \in 0..MaxSchemes}

\* VoiceAgent._mentions_any_scheme: the text holds the name of one of the
\* first eight candidates.
mentions_any_scheme(text, eligible, retrieved) ==
    /\ text = "You may apply to scheme 1"
    /\ \E i \in 1..Len(eligible \o retrieved) :
          i <= 8 /\ (eligible \o retrieved)[i] = 1

\* `eligible[:3]`, `retrieved[:3]`
first_three(schemes) == SubSeq(schemes, 1, IF Len(schemes) < 3 THEN Len(schemes) ELSE 3)

\* A response dict: where its text comes from (the oracle's reply of this
\* call, the fallback, or pending_response), the scheme names the text
\* lists, type and requires_input.  No text returned is empty: the fallback
\* texts start with a fixed heading, and the other two are tested.
Response(origin, heading, names, type, requires_input) ==
    [origin |-> origin, heading |-> heading, names |-> names,
     type |-> type, requires_input |-> requires_input]

\* A mutated fallback: every scheme held is listed.
generate_fallback_response_lists_all(eligible, retrieved) ==
    IF Len(eligible) > 0
    THEN Response("fallback", "eligible", eligible, "response", TRUE)
    ELSE IF Len(retrieved) > 0
    THEN Response("fallback", "retrieved", retrieved, "response", TRUE)
    ELSE Response("fallback", "default_clarification", <<>>, "clarification", TRUE)

\* VoiceAgent._generate_fallback_response: a heading, the names of the first
\* three eligible schemes, else of the first three retrieved schemes, and a
\* closing question; the default clarification when there are none.
generate_fallback_response(eligible, retrieved) ==
    IF Len(eligible) > 0
    THEN Response("fallback", "eligible", first_three(eligible), "response", TRUE)
    ELSE IF Len(retrieved) > 0
    THEN Response("fallback", "retrieved", first_three(retrieved), "response", TRUE)
    ELSE Response("fallback", "default_clarification", <<>>, "clarification", TRUE)

\* The bare `except:` of _generate_response: pending_response, when the
\* context holds a non-blank one, is returned with requires_input False;
\* else the fallback.
response_after_exception(eligible, retrieved, pending_response) ==
    IF pending_response \notin {Absent, "", "blank"}
    THEN Response("pending_response", "none", <<>>, "response", FALSE)
    ELSE generate_fallback_response(eligible, retrieved)

\* VoiceAgent._generate_response after the oracle has answered.
generate_response(reply, eligible, retrieved, pending_response, missing_information) ==
    IF reply.json # "object" \/ reply.response = "not_a_string"
    THEN response_after_exception(eligible, retrieved, pending_response)
    ELSE IF response_text(reply) = "" \/ is_placeholder(response_text(reply))
    THEN generate_fallback_response(eligible, retrieved)
    ELSE IF is_unusable_response_text(response_text(reply))
    THEN generate_fallback_response(eligible, retrieved)
    ELSE IF /\ Len(eligible) > 0 \/ Len(retrieved) > 0
            /\ ~mentions_any_scheme(response_text(reply), eligible, retrieved)
    THEN generate_fallback_response(eligible, retrieved)
    ELSE Response("oracle", "none", <<>>, "response", missing_information)

\* pending_response of extracted_entities, as Evaluator.evaluate stored it
\* from the "user_response" member of the evaluation reply: absent, blank, a
\* sentence, or a placeholder the oracle echoed.
PendingResponses == {Absent, "blank", "Here is what I found", "Your response to the user"}

\* A _generate_response call, answered by the oracle with the reply drawn.
GenerateResponseCall ==
    /\ gr_call.op = "pending"
    /\ gr_call' = [gr_call EXCEPT
                      !.op = "generate_response",
                      !.result = generate_response(gr_call.reply, gr_call.eligible,
                                                   gr_call.retrieved,
                                                   gr_call.pending_response,
                                                   gr_call.missing_information)]

\* The reply the oracle will give and the context of the call are drawn.
InitResponse ==
    /\ InitStateMachine
    /\ IdlePlanner
    /\ IdleReplan
    /\ IdleExec
    /\ IdleCtx
    /\ IdleEval
    /\ IdleAgent
    /\ \E reply \in ResponseReplies, eligible \in SchemeLists, retrieved \in SchemeLists,
          pending_response \in PendingResponses, missing_information \in BOOLEAN :
           gr_call = [op |-> "pending", reply |-> reply, eligible |-> eligible,
                      retrieved |-> retrieved, pending_response |-> pending_response,
                      missing_information |-> missing_information,
                      result |-> Response("none", "none", <<>>, "none", FALSE)]

NextResponse ==
    GenerateResponseCall /\ UNCHANGED <<smVars, plVars, rpVars, exVars, cxVars, evVars, agVars>>

\* _generate_response called with arbitrary replies on arbitrary contexts.
SpecResponse == InitResponse /\ [][NextResponse]_vars

(***************************************************************************)
(* orchestrator.py: VoiceAgent                                             *)
(* A process_input call is a coroutine: it runs from one await of the      *)
(* oracle or of a tool to the next, and each such stretch is one action.   *)
(***************************************************************************)
\* The ids create_session can hand out; an id is never handed out twice.
SessionIds == {"s1", "s2"}

\* extracted_entities without the key "pending_contradiction".
NoContradiction == [field |-> None, old_value |-> None, new_value |-> None]

\* AgentContext() as create_session stores it.  status tells whether the id
\* is in self.sessions; clarifying_questions and has_schemes stand for the
\* keys "clarifying_questions" and "eligible_schemes" / "retrieved_schemes"
\* of extracted_entities holding a non-empty value; conversation_turns keeps
\* the role of each turn; profile_order is the order of the keys of the
\* user_profile dict (the order they were first stored in), and
\* pending_contradiction the value of that key of extracted_entities.
AgentContext(status) ==
    [status |-> status, user_profile |-> <<>>, clarifying_questions |-> FALSE,
     has_schemes |-> FALSE, conversation_turns |-> <<>>,
     profile_order |-> <<>>, pending_contradiction |-> NoContradiction]

\* No process_input call is in flight for the session.
NoCall == [pc |-> "idle"]

\* A process_input call at work: the state machine and the context it acts
\* on, its local variables, the exception being propagated (exc), and pc:
\* "run" while it executes, the name of the await it is suspended at, or
\* "done" with the outcome in out.
Call(s, local) ==
    [session |-> s, pc |-> "run", exc |-> None, failure |-> local.failure,
     out |-> [outcome |-> None],
     state |-> current_state, history |-> transition_history, log |-> hook_log,
     ctx |-> ag_sessions[s],
     goal |-> local.goal, plan |-> local.plan, exec |-> local.exec,
     missing_information |-> local.missing_information, revised |-> local.revised,
     started_at |-> local.started_at, invoked |-> local.invoked,
     needs_replanning |-> local.needs_replanning, is_reliable |-> local.is_reliable,
     planner_flagged |-> local.planner_flagged]

\* The next statement of the call applied to the call as it stands (call is
\* evaluated once); a statement is skipped when the call is suspended or
\* done, or while an exception is being propagated.
Then(call, statement(_)) ==
    CHOOSE after \in {IF r.pc # "run" \/ r.exc # None THEN r ELSE statement(r) :
                          r \in {call}} : TRUE

\* self.state_machine.transition(to_state, trigger, ...) inside the call; an
\* InvalidStateTransitionError becomes the exception being propagated.
enter(call, to_state, trigger) ==
    Then(call, LAMBDA r :
        CHOOSE after \in
            {[r EXCEPT !.state = t.state, !.history = t.history,
                       !.log = @ \o t.fired,
                       !.exc = IF t.raised THEN "InvalidStateTransitionError" ELSE None,
                       !.failure = IF t.raised /\ @ = None
                                   THEN "InvalidStateTransitionError" ELSE @] :
                t \in {transition_result(r.state, r.history, transition_hooks,
                                         to_state, trigger, None)}} : TRUE)

\* An exception is raised in the call.
raise(call, error) ==
    Then(call, LAMBDA r : [r EXCEPT !.exc = error, !.failure = error])

\* What a call has invoked so far: the oracle (llm_client.generate), tools
\* (tool.execute), the components' create_plan, replan, execute_plan and
\* evaluate, and context.add_turn.
Invocations ==
    {"oracle", "tool", "create_plan", "replan", "execute_plan", "evaluate", "add_turn"}

NothingInvoked == [what \in Invocations |-> 0]

\* What is invoked when the call suspends at the await named pc: each of
\* create_plan, replan (below the revision ceiling), evaluate and the two
\* helpers of the orchestrator awaits one generate of the oracle.
InvokedAt(pc) ==
    CASE pc = "extract_entities"  -> {"oracle"}
      [] pc = "create_plan"       -> {"create_plan", "oracle"}
      [] pc = "replan"            -> {"replan", "oracle"}
      [] pc = "evaluate"          -> {"evaluate", "oracle"}
      [] pc = "generate_response" -> {"oracle"}
      [] pc = "tool_execute"      -> {"tool"}

\* The call invokes the things in the set whats.
invokes(call, whats) ==
    Then(call, LAMBDA r :
        [r EXCEPT !.invoked = [what \in Invocations |->
                                  IF what \in whats THEN @[what] + 1 ELSE @[what]]])

\* context.add_turn(role, ...)
add_turn(call, role) ==
    Then(invokes(call, {"add_turn"}),
         LAMBDA r : [r EXCEPT !.ctx.conversation_turns = Append(@, role)])

\* The call suspends at an await, having invoked what it awaits.
awaits(call, pc) ==
    Then(invokes(call, InvokedAt(pc)), LAMBDA r : [r EXCEPT !.pc = pc])

\* The call returns the response dict.
returns(call, type, requires_input) ==
    Then(call, LAMBDA r :
        [r EXCEPT !.pc = "done",
                  !.out = [outcome |-> "returned", type |-> type,
                           requires_input |-> requires_input]])

\* The except clauses of process_input with _handle_error: ERROR_RECOVERY,
\* then IDLE, then the error response.  A transition that raises inside
\* _handle_error is raised inside an except clause: it leaves process_input.
handle_error(call) ==
    CHOOSE after \in
        {IF handled.exc = None THEN handled
         ELSE [handled EXCEPT !.pc = "done",
                              !.out = [outcome |-> "raised", type |-> handled.exc,
                                       requires_input |-> FALSE]] :
            handled \in {IF r.exc = None THEN r
                         ELSE returns(enter(enter([r EXCEPT !.exc = None],
                                                  ERROR_RECOVERY, "error"),
                                            IDLE, "error_handled"),
                                      "error", TRUE) :
                            r \in {call}}} : TRUE

\* The order of profile_fields, as far as the profile is modelled.
profile_fields == <<"age", "income">>

RECURSIVE update_profile_from_entities(_, _, _)
\* VoiceAgent._update_profile_from_entities, from the field at position n on
update_profile_from_entities(profile, entities, n) ==
    IF n > Len(profile_fields) THEN profile
    ELSE update_profile_from_entities(
             IF profile_fields[n] \in DOMAIN entities
             THEN update_profile(profile, profile_fields[n],
                                 entities[profile_fields[n]], "extracted").profile
             ELSE profile,
             entities, n + 1)

RECURSIVE profile_order_after(_, _, _)
\* The order of the keys of user_profile after _update_profile_from_entities:
\* a key stored for the first time comes last, a key stored again keeps its
\* place.
profile_order_after(order, entities, n) ==
    IF n > Len(profile_fields) THEN order
    ELSE profile_order_after(
             IF /\ profile_fields[n] \in DOMAIN entities
                /\ \A i \in 1..Len(order) : order[i] # profile_fields[n]
             THEN Append(order, profile_fields[n])
             ELSE order,
             entities, n + 1)

\* VoiceAgent._check_for_contradictions: some entry carries the flag
check_for_contradictions(profile) ==
    \E k \in DOMAIN profile : profile[k].contradiction_detected

\* The list _check_for_contradictions returns: one item for each flagged
\* entry, in the order of the keys of user_profile.
contradictions_of(ctx) ==
    LET flagged == SelectSeq(ctx.profile_order,
                             LAMBDA k : ctx.user_profile[k].contradiction_detected)
    IN  [i \in 1..Len(flagged) |->
            [field |-> flagged[i],
             old_value |-> ctx.user_profile[flagged[i]].previous_value,
             new_value |-> ctx.user_profile[flagged[i]].value]]

\* A _handle_contradictions that asks about the last item of the list.
handle_contradictions_asks_last(call) ==
    Then(enter(call, WAITING_FOR_INPUT, "contradiction_detected"), LAMBDA r :
        returns([r EXCEPT !.ctx.pending_contradiction =
                              contradictions_of(r.ctx)[Len(contradictions_of(r.ctx))]],
                "clarification", TRUE))

\* VoiceAgent._handle_contradictions: WAITING_FOR_INPUT, the first item of
\* the list is stored as pending_contradiction and asked about.
handle_contradictions(call) ==
    Then(enter(call, WAITING_FOR_INPUT, "contradiction_detected"), LAMBDA r :
        returns([r EXCEPT !.ctx.pending_contradiction = contradictions_of(r.ctx)[1]],
                "clarification", TRUE))

\* What the oracle answers in _extract_entities: generate raises; or a reply
\* that json.loads and dict.update accept, with the entities it holds (a
\* reply they reject gives no entities, like an empty object).
EntityAnswers ==
    {[fails |-> TRUE, entities |-> <<>>, clarifying_questions |-> FALSE],
     [fails |-> FALSE, entities |-> <<>>, clarifying_questions |-> FALSE],
     [fails |-> FALSE, entities |-> <<>>, clarifying_questions |-> TRUE]}
    \cup {[fails |-> FALSE, entities |-> [k \in {"age"} |-> v],
           clarifying_questions |-> FALSE] : v \in ProfileValues}

\* The answer of the oracle in create_plan that comes with clarifying
\* questions.
ClarifyingPlan ==
    OracleAnswer(FALSE, Reply(<<"{", "V", "}">>,
                              [OneTaskMembers EXCEPT !.clarifying_questions = "some",
                                                     !.missing_info = "some"]))

\* What the oracle answers in create_plan: the answers of a replanning
\* request, or a plan that comes with clarifying questions.
PlanAnswers ==
    ReplanAnswers \cup {ClarifyingPlan}

\* What Evaluator.evaluate gives: it raises (the oracle fails, or its reply
\* makes the parser raise), or an EvaluationResult.
Evaluations ==
    {[raises |-> TRUE, needs_replanning |-> FALSE, missing_information |-> FALSE]}
    \cup {[raises |-> FALSE, needs_replanning |-> n, missing_information |-> m] :
            n \in BOOLEAN, m \in BOOLEAN}

\* What the oracle answers in _generate_response: generate raises, a text
\* that is returned as it is, a reply that is replaced by the fallback, or a
\* reply that cannot be read while the evaluation has left a
\* pending_response, which is returned in its place.
ResponseAnswers == {"fails", "usable", "unusable", "pending_response"}

RECURSIVE run_to_await(_)
\* execute_plan runs until it awaits a tool, returns or raises.
run_to_await(e) ==
    IF e.pc = "loop" THEN run_to_await(execute_plan_pass(e)) ELSE e

\* _update_context_from_result of the tasks passed so far: a returned result
\* of eligibility_checker or scheme_retriever stores its schemes.
stores_schemes(e) ==
    \E j \in 1..Len(e.plan.tasks) :
        /\ j <= e.plan.current_task_index
        /\ e.plan.tasks[j].status = COMPLETED
        /\ e.plan.tasks[j].tool_name \in {"eligibility_checker", "scheme_retriever"}

\* The call after execute_plan has run on: it is suspended in a tool call,
\* or execute_plan has raised, or it has returned and the call goes on to
\* EVALUATING and awaits the evaluation.
executing(call, execution) ==
    Then(call, LAMBDA r :
        CHOOSE after \in
            {IF e.pc = "await"
             THEN awaits([r EXCEPT !.exec = e], "tool_execute")
             ELSE IF e.pc = "raised"
             THEN raise([r EXCEPT !.exec = <<>>,
                                  !.ctx.has_schemes = @ \/ stores_schemes(e)],
                        "TypeError")
             ELSE awaits(enter([r EXCEPT !.exec = <<>>,
                                         !.ctx.has_schemes = @ \/ stores_schemes(e)],
                               EVALUATING, "execution_complete"),
                         "evaluate") :
                e \in {execution}} : TRUE)

\* The bound of the agent specification: a process_input call begins only
\* while the transition history is shorter than this.
MaxAgentHistory == 6

\* The bound of the conversation specification, where every call ends at
\* the plan at the latest.
MaxConversationHistory == 11

\* No contradiction was asked about by the latest call of a session.
NotAsked == [contradiction |-> NoContradiction, times |-> 0]

\* Whether the finished call f returned the clarification of
\* _handle_contradictions: it went from UNDERSTANDING to WAITING_FOR_INPUT.
asked_contradiction(f) ==
    /\ f.out.outcome = "returned"
    /\ f.out.type = "clarification"
    /\ f.invoked["create_plan"] = 0

\* The contradiction the latest calls of the session asked about, after the
\* call f has ended: one more time when f asked about the same item again.
asked_after(asked, f) ==
    IF ~asked_contradiction(f) THEN NotAsked
    ELSE [contradiction |-> f.ctx.pending_contradiction,
          times |-> IF asked.contradiction = f.ctx.pending_contradiction
                    THEN asked.times + 1 ELSE 1]

\* The call ends its stretch: the state machine, the context and the call's
\* local variables are as the stretch left them; a call that is done is
\* recorded with the states it entered and the state it left the machine in.
Commit(call) ==
    \E f \in {handle_error(call)} :
        /\ current_state' = f.state
        /\ transition_history' = f.history
        /\ hook_log' = f.log
        /\ UNCHANGED <<transition_hooks, sm_call>>
        /\ ag_sessions' = [ag_sessions EXCEPT ![f.session] = f.ctx]
        /\ ag_calls' = [ag_calls EXCEPT ![f.session] =
                           IF f.pc = "done" THEN NoCall
                           ELSE [pc |-> f.pc, failure |-> f.failure, goal |-> f.goal,
                                 plan |-> f.plan, exec |-> f.exec,
                                 missing_information |-> f.missing_information,
                                 revised |-> f.revised, started_at |-> f.started_at,
                                 invoked |-> f.invoked,
                                 needs_replanning |-> f.needs_replanning,
                                 is_reliable |-> f.is_reliable,
                                 planner_flagged |-> f.planner_flagged]]
        /\ ag_last' = IF f.pc # "done" THEN ag_last
                      ELSE [op |-> "process_input", session |-> f.session,
                            outcome |-> f.out.outcome, type |-> f.out.type,
                            requires_input |-> f.out.requires_input,
                            failure |-> f.failure,
                            entered |-> [n \in 1..(Len(f.history) - f.started_at) |->
                                            f.history[f.started_at + n].to_state],
                            revised |-> f.revised,
                            invoked |-> f.invoked,
                            needs_replanning |-> f.needs_replanning,
                            is_reliable |-> f.is_reliable,
                            planner_flagged |-> f.planner_flagged,
                            contradictions |-> contradictions_of(f.ctx),
                            pending_contradiction |-> f.ctx.pending_contradiction,
                            final_state |-> f.state]
        /\ ag_asked' = IF f.pc # "done" THEN ag_asked
                       ELSE [ag_asked EXCEPT ![f.session] = asked_after(@, f)]

\* No call is in flight: the caller of the agent awaits each process_input
\* before it makes the next call.
Quiet == \A s \in SessionIds : ag_calls[s] = NoCall

\* VoiceAgent.create_session
create_session(s) ==
    /\ Quiet
    /\ ag_sessions[s].status = "unused"
    /\ ag_sessions' = [ag_sessions EXCEPT ![s] = AgentContext("active")]
    /\ ag_last' = [op |-> "create_session", session |-> s, outcome |-> "returned"]
    /\ UNCHANGED <<smVars, ag_calls, ag_asked>>

\* A mutated end_session: the machine is taken to IDLE and the session is
\* kept.
end_session_keeps_session(s) ==
    LET t == transition_result(current_state, transition_history, transition_hooks,
                               IDLE, "session_ended", None)
    IN  /\ Quiet
        /\ current_state' = t.state
        /\ transition_history' = t.history
        /\ hook_log' = hook_log \o t.fired
        /\ ag_last' = [op |-> "end_session", session |-> s,
                       outcome |-> IF t.raised THEN "raised" ELSE "returned"]
        /\ ag_asked' = [ag_asked EXCEPT ![s] = NotAsked]
        /\ UNCHANGED <<transition_hooks, sm_call, ag_calls, ag_sessions>>

\* A mutated end_session: the machine is taken to TERMINATED.
end_session_terminates(s) ==
    LET t == transition_result(current_state, transition_history, transition_hooks,
                               TERMINATED, "session_ended", None)
    IN  /\ Quiet
        /\ ag_sessions' = [ag_sessions EXCEPT ![s] =
                              IF @.status = "active" THEN AgentContext("ended") ELSE @]
        /\ current_state' = t.state
        /\ transition_history' = t.history
        /\ hook_log' = hook_log \o t.fired
        /\ ag_last' = [op |-> "end_session", session |-> s,
                       outcome |-> IF t.raised THEN "raised" ELSE "returned"]
        /\ ag_asked' = [ag_asked EXCEPT ![s] = NotAsked]
        /\ UNCHANGED <<transition_hooks, sm_call, ag_calls>>

\* VoiceAgent.end_session(session_id), for an id in self.sessions or not: the
\* session is deleted, and the machine is taken to IDLE unless it is
\* TERMINATED.
end_session(s) ==
    LET t == IF current_state # TERMINATED
             THEN transition_result(current_state, transition_history,
                                    transition_hooks, IDLE, "session_ended", None)
             ELSE [raised |-> FALSE, state |-> current_state,
                   history |-> transition_history, fired |-> <<>>]
    IN  /\ Quiet
        /\ ag_sessions' = [ag_sessions EXCEPT ![s] =
                              IF @.status = "active" THEN AgentContext("ended") ELSE @]
        /\ current_state' = t.state
        /\ transition_history' = t.history
        /\ hook_log' = hook_log \o t.fired
        /\ ag_last' = [op |-> "end_session", session |-> s,
                       outcome |-> IF t.raised THEN "raised" ELSE "returned"]
        /\ ag_asked' = [ag_asked EXCEPT ![s] = NotAsked]
        /\ UNCHANGED <<transition_hooks, sm_call, ag_calls>>

\* process_input for an id that is not in self.sessions: the error dict is
\* returned before anything else is done.
process_input_invalid_session(s) ==
    /\ Quiet
    /\ ag_sessions[s].status # "active"
    /\ ag_last' = [op |-> "process_input", session |-> s, outcome |-> "returned",
                   type |-> "invalid_session", requires_input |-> FALSE,
                   failure |-> None, entered |-> <<>>, revised |-> FALSE,
                   invoked |-> NothingInvoked, needs_replanning |-> FALSE,
                   is_reliable |-> FALSE, planner_flagged |-> FALSE,
                   contradictions |-> <<>>,
                   pending_contradiction |-> NoContradiction,
                   final_state |-> current_state]
    /\ UNCHANGED <<smVars, ag_sessions, ag_calls, ag_asked>>

\* An unreliable input handled after it was added to the conversation.
handle_unreliable_input_after_turn(call) ==
    returns(enter(enter(add_turn(call, "user"), ERROR_RECOVERY, "unreliable_input"),
                  WAITING_FOR_INPUT, "requesting_retry"),
            "retry_request", TRUE)

\* VoiceAgent._handle_unreliable_input: ERROR_RECOVERY, WAITING_FOR_INPUT and
\* the retry request.
handle_unreliable_input(call) ==
    returns(enter(enter(call, ERROR_RECOVERY, "unreliable_input"),
                  WAITING_FOR_INPUT, "requesting_retry"),
            "retry_request", TRUE)

\* process_input up to its first await: LISTENING, the input quality check
\* (is_reliable is its verdict), the user turn, UNDERSTANDING, and the oracle
\* call of _extract_entities; or _handle_unreliable_input.
begin_process_input(s, goal, is_reliable) ==
    LET r == enter(Call(s, [failure |-> None, goal |-> goal, plan |-> <<>>,
                            exec |-> <<>>, missing_information |-> FALSE,
                            revised |-> FALSE,
                            started_at |-> Len(transition_history),
                            invoked |-> NothingInvoked,
                            needs_replanning |-> FALSE,
                            is_reliable |-> is_reliable,
                            planner_flagged |-> FALSE]),
                   LISTENING, "user_input_received")
    IN  /\ ag_calls[s] = NoCall
        /\ ag_sessions[s].status = "active"
        /\ Commit(IF is_reliable
                  THEN awaits(enter(add_turn(r, "user"), UNDERSTANDING, "input_validated"),
                              "extract_entities")
                  ELSE handle_unreliable_input(r))

\* process_input called by a caller that awaits each call before the next.
process_input(s, goal, is_reliable) ==
    /\ Quiet
    /\ Len(transition_history) < MaxAgentHistory
    /\ begin_process_input(s, goal, is_reliable)

\* process_input in a conversation that is followed for longer.
process_input_in_conversation(s, goal, is_reliable) ==
    /\ Quiet
    /\ Len(transition_history) < MaxConversationHistory
    /\ begin_process_input(s, goal, is_reliable)

\* process_input called for a session whether or not a call for the other
\* session is suspended at an await: the hosting runtime runs the coroutines
\* of several requests on one event loop.
process_input_interleaved(s, goal) ==
    /\ Len(transition_history) < MaxAgentHistory
    /\ begin_process_input(s, goal, TRUE)

\* The oracle answers _extract_entities: the profile is updated, then
\* _handle_contradictions, or PLANNING and the oracle call of create_plan.
extract_entities_done(s, answer) ==
    LET r0 == Call(s, ag_calls[s])
        r == IF answer.fails THEN raise(r0, "OracleError")
             ELSE [r0 EXCEPT !.ctx.clarifying_questions = @ \/ answer.clarifying_questions,
                             !.ctx.user_profile =
                                 update_profile_from_entities(@, answer.entities, 1),
                             !.ctx.profile_order =
                                 profile_order_after(@, answer.entities, 1)]
    IN  /\ ag_calls[s].pc = "extract_entities"
        /\ Commit(IF check_for_contradictions(r.ctx.user_profile)
                  THEN handle_contradictions(r)
                  ELSE awaits(enter(r, PLANNING, "understanding_complete"),
                              "create_plan"))

\* The oracle answers create_plan: _request_clarification when
\* extracted_entities holds clarifying questions, else EXECUTING and
\* execute_plan.
create_plan_done(s, answer) ==
    LET r0 == Call(s, ag_calls[s])
        p == create_plan(r0.goal, answer.reply)
        r == IF answer.fails THEN raise(r0, "OracleError")
             ELSE IF p.raised THEN raise(r0, p.error)
             ELSE [r0 EXCEPT !.plan = p.plan,
                             !.planner_flagged = p.stores_clarifying_questions,
                             !.ctx.clarifying_questions = @ \/ p.stores_clarifying_questions]
    IN  /\ ag_calls[s].pc = "create_plan"
        /\ Commit(IF r.exc = None /\ r.ctx.clarifying_questions
                  THEN returns(enter(r, WAITING_FOR_INPUT, "requesting_clarification"),
                               "clarification", TRUE)
                  ELSE IF r.exc = None
                  THEN executing(invokes(enter(r, EXECUTING, "plan_created"),
                                         {"execute_plan"}),
                                 run_to_await(Execution(r.plan)))
                  ELSE r)

\* The awaited tool call of execute_plan ends.
tool_execute_done_in_call(s, outcome) ==
    LET r == Call(s, ag_calls[s])
    IN  /\ ag_calls[s].pc = "tool_execute"
        /\ Commit(executing(r, run_to_await(tool_execute_done(r.exec, outcome))))

\* A process_input that took every evaluation asking for it to
\* _handle_replanning, also the one made by _handle_replanning itself.
goes_to_replanning_every_time(revised, evaluation, plan) ==
    /\ evaluation.needs_replanning
    /\ plan.revision_count < max_planning_iterations

\* Step 6 of process_input: the evaluation made by process_input itself (not
\* the one made inside _handle_replanning) asks for replanning and the
\* plan is below the revision ceiling.
goes_to_replanning(revised, evaluation, plan) ==
    /\ ~revised
    /\ evaluation.needs_replanning
    /\ plan.revision_count < max_planning_iterations

\* Evaluator.evaluate ends: _handle_replanning (PLANNING and the oracle call
\* of replan) when the first evaluation asks for it, else RESPONDING and the
\* oracle call of _generate_response.
evaluate_done(s, evaluation) ==
    LET r0 == Call(s, ag_calls[s])
        r == IF evaluation.raises THEN raise(r0, "OracleError")
             ELSE [r0 EXCEPT !.missing_information = evaluation.missing_information,
                             !.needs_replanning = evaluation.needs_replanning]
    IN  /\ ag_calls[s].pc = "evaluate"
        /\ Commit(IF goes_to_replanning(r0.revised, evaluation, r0.plan)
                  THEN awaits(enter(r, PLANNING, "replanning"), "replan")
                  ELSE awaits(enter(r, RESPONDING, "evaluation_complete"),
                              "generate_response"))

\* The oracle answers replan, in _handle_replanning: EXECUTING and
\* execute_plan on the revised plan.
replan_done(s, answer) ==
    LET r0 == Call(s, ag_calls[s])
        p == replan(r0.plan, answer)
        r == IF p.raised THEN raise(r0, p.error)
             ELSE [r0 EXCEPT !.plan = p.plan, !.revised = TRUE]
    IN  /\ ag_calls[s].pc = "replan"
        /\ Commit(IF r.exc = None
                  THEN executing(invokes(enter(r, EXECUTING, "executing_revised_plan"),
                                         {"execute_plan"}),
                                 run_to_await(Execution(r.plan)))
                  ELSE r)

\* The oracle answers _generate_response.  Without replanning the assistant
\* turn is added and the machine goes to WAITING_FOR_INPUT or IDLE before the
\* response is returned; _handle_replanning returns the response as it is.
generate_response_done(s, answer) ==
    LET r0 == Call(s, ag_calls[s])
        r == IF answer = "fails" THEN raise(r0, "OracleError") ELSE r0
        type == IF answer \in {"usable", "pending_response"} \/ r.ctx.has_schemes
                THEN "response" ELSE "clarification"
        requires_input == CASE answer = "usable" -> r.missing_information
                            [] answer = "pending_response" -> FALSE
                            [] OTHER -> TRUE
    IN  /\ ag_calls[s].pc = "generate_response"
        /\ Commit(IF r.revised
                  THEN returns(r, type, requires_input)
                  ELSE returns(enter(add_turn(r, "assistant"),
                                     IF r.missing_information
                                     THEN WAITING_FOR_INPUT ELSE IDLE,
                                     "interaction_complete"),
                               type, requires_input))

\* VoiceAgent.__init__: a StateMachine in IDLE with the post_idle hook, and
\* no session.
InitAgent ==
    /\ current_state = IDLE
    /\ transition_history = <<>>
    /\ transition_hooks = [e \in {HookEvent("post", IDLE)} |-> <<"_on_state_change">>]
    /\ hook_log = <<>>
    /\ sm_call = [op |-> None, from_state |-> None, to_state |-> None,
                  trigger |-> None, metadata |-> None, result |-> None]
    /\ ag_sessions = [s \in SessionIds |-> AgentContext("unused")]
    /\ ag_calls = [s \in SessionIds |-> NoCall]
    /\ ag_last = [op |-> None]
    /\ ag_asked = [s \in SessionIds |-> NotAsked]
    /\ IdlePlanner
    /\ IdleReplan
    /\ IdleExec
    /\ IdleCtx
    /\ IdleEval
    /\ IdleResponse

NextAgent ==
    \/ \E s \in SessionIds : create_session(s) /\ UNCHANGED <<plVars, rpVars, exVars, cxVars, evVars, grVars>>
    \/ \E s \in SessionIds : end_session(s) /\ UNCHANGED <<plVars, rpVars, exVars, cxVars, evVars, grVars>>
    \/ \E s \in SessionIds :
          process_input_invalid_session(s) /\ UNCHANGED <<plVars, rpVars, exVars, cxVars, evVars, grVars>>
    \/ \E s \in SessionIds, goal \in Goals, is_reliable \in BOOLEAN :
          process_input(s, goal, is_reliable) /\ UNCHANGED <<plVars, rpVars, exVars, cxVars, evVars, grVars>>
    \/ \E s \in SessionIds, answer \in EntityAnswers :
          extract_entities_done(s, answer) /\ UNCHANGED <<plVars, rpVars, exVars, cxVars, evVars, grVars>>
    \/ \E s \in SessionIds, answer \in PlanAnswers :
          create_plan_done(s, answer) /\ UNCHANGED <<plVars, rpVars, exVars, cxVars, evVars, grVars>>
    \/ \E s \in SessionIds, outcome \in ToolOutcomes :
          tool_execute_done_in_call(s, outcome) /\ UNCHANGED <<plVars, rpVars, exVars, cxVars, evVars, grVars>>
    \/ \E s \in SessionIds, evaluation \in Evaluations :
          evaluate_done(s, evaluation) /\ UNCHANGED <<plVars, rpVars, exVars, cxVars, evVars, grVars>>
    \/ \E s \in SessionIds, answer \in ReplanAnswers :
          replan_done(s, answer) /\ UNCHANGED <<plVars, rpVars, exVars, cxVars, evVars, grVars>>
    \/ \E s \in SessionIds, answer \in ResponseAnswers :
          generate_response_done(s, answer) /\ UNCHANGED <<plVars, rpVars, exVars, cxVars, evVars, grVars>>

\* The agent driven by a caller that makes one call at a time.
SpecAgent == InitAgent /\ [][NextAgent]_vars

\* What the oracle answers in _extract_entities in a conversation about the
\* profile: generate raises, or the reply holds a value for some of the
\* profile fields.
ProfileEntityAnswers ==
    {[fails |-> TRUE, entities |-> <<>>, clarifying_questions |-> FALSE]}
    \cup {[fails |-> FALSE, entities |-> e, clarifying_questions |-> FALSE] :
            e \in UNION {[K -> ProfileValues] : K \in SUBSET ProfileKeys}}

NextAgentConversation ==
    \/ create_session("s1") /\ UNCHANGED <<plVars, rpVars, exVars, cxVars, evVars, grVars>>
    \/ \E goal \in Goals, is_reliable \in BOOLEAN :
          process_input_in_conversation("s1", goal, is_reliable)
          /\ UNCHANGED <<plVars, rpVars, exVars, cxVars, evVars, grVars>>
    \/ \E answer \in ProfileEntityAnswers :
          extract_entities_done("s1", answer)
          /\ UNCHANGED <<plVars, rpVars, exVars, cxVars, evVars, grVars>>
    \/ create_plan_done("s1", ClarifyingPlan) /\ UNCHANGED <<plVars, rpVars, exVars, cxVars, evVars, grVars>>

\* One session in a conversation about its profile: the planner asks for
\* clarification every time it is reached.
SpecAgentConversation == InitAgent /\ [][NextAgentConversation]_vars

\* The answers when nothing goes wrong: the oracle extracts no entity, gives
\* a usable plan of one task, judges the execution complete and words the
\* response; the tool returns its result.
SteadyEntities == [fails |-> FALSE, entities |-> <<>>, clarifying_questions |-> FALSE]
SteadyPlan == OracleAnswer(FALSE, Reply(<<"{", "V", "}">>, OneTaskMembers))
SteadyEvaluation ==
    [raises |-> FALSE, needs_replanning |-> FALSE, missing_information |-> FALSE]

NextAgentInterleaved ==
    \/ \E s \in SessionIds : create_session(s) /\ UNCHANGED <<plVars, rpVars, exVars, cxVars, evVars, grVars>>
    \/ \E s \in SessionIds, goal \in Goals :
          process_input_interleaved(s, goal) /\ UNCHANGED <<plVars, rpVars, exVars, cxVars, evVars, grVars>>
    \/ \E s \in SessionIds :
          extract_entities_done(s, SteadyEntities)
          /\ UNCHANGED <<plVars, rpVars, exVars, cxVars, evVars, grVars>>
    \/ \E s \in SessionIds :
          create_plan_done(s, SteadyPlan) /\ UNCHANGED <<plVars, rpVars, exVars, cxVars, evVars, grVars>>
    \/ \E s \in SessionIds :
          tool_execute_done_in_call(s, "returns")
          /\ UNCHANGED <<plVars, rpVars, exVars, cxVars, evVars, grVars>>
    \/ \E s \in SessionIds :
          evaluate_done(s, SteadyEvaluation) /\ UNCHANGED <<plVars, rpVars, exVars, cxVars, evVars, grVars>>
    \/ \E s \in SessionIds :
          generate_response_done(s, "usable")
          /\ UNCHANGED <<plVars, rpVars, exVars, cxVars, evVars, grVars>>

\* The agent driven by a runtime that serves the sessions concurrently, with
\* an oracle and tools that never fail.
SpecAgentInterleaved == InitAgent /\ [][NextAgentInterleaved]_vars

\* An evaluation that asks for replanning.
ReplanningEvaluation ==
    [raises |-> FALSE, needs_replanning |-> TRUE, missing_information |-> FALSE]

\* The replans performed on the machine so far: _handle_replanning enters
\* PLANNING with the trigger "replanning" and calls planner.replan.
ReplansPerformed ==
    Cardinality({i \in 1..Len(transition_history) :
                    transition_history[i].trigger = "replanning"})

\* The conversation is followed until it has seen this many replans.
MaxConversationReplans == 6

\* process_input in a conversation followed by the number of its replans.
process_input_in_replanning_conversation(s, goal) ==
    /\ Quiet
    /\ ReplansPerformed < MaxConversationReplans
    /\ begin_process_input(s, goal, TRUE)

NextAgentReplanning ==
    \/ create_session("s1") /\ UNCHANGED <<plVars, rpVars, exVars, cxVars, evVars, grVars>>
    \/ \E goal \in Goals :
          process_input_in_replanning_conversation("s1", goal)
          /\ UNCHANGED <<plVars, rpVars, exVars, cxVars, evVars, grVars>>
    \/ extract_entities_done("s1", SteadyEntities)
          /\ UNCHANGED <<plVars, rpVars, exVars, cxVars, evVars, grVars>>
    \/ create_plan_done("s1", SteadyPlan) /\ UNCHANGED <<plVars, rpVars, exVars, cxVars, evVars, grVars>>
    \/ \E outcome \in {"returns", "raises"} :
          tool_execute_done_in_call("s1", outcome)
          /\ UNCHANGED <<plVars, rpVars, exVars, cxVars, evVars, grVars>>
    \/ evaluate_done("s1", ReplanningEvaluation)
          /\ UNCHANGED <<plVars, rpVars, exVars, cxVars, evVars, grVars>>
    \/ replan_done("s1", SteadyPlan) /\ UNCHANGED <<plVars, rpVars, exVars, cxVars, evVars, grVars>>
    \/ generate_response_done("s1", "usable")
          /\ UNCHANGED <<plVars, rpVars, exVars, cxVars, evVars, grVars>>

\* One session in a conversation in which the evaluator asks for replanning
\* in every call, with an oracle that never fails and a tool that returns or
\* raises.
SpecAgentReplanning == InitAgent /\ [][NextAgentReplanning]_vars

InitSM ==
    /\ InitStateMachine /\ IdlePlanner /\ IdleReplan /\ IdleExec /\ IdleCtx
    /\ IdleEval /\ IdleResponse /\ IdleAgent

NextSM ==
    \/ TransitionCall /\ UNCHANGED <<plVars, rpVars, exVars, cxVars, evVars, grVars, agVars>>
    \/ RegisterHookCall /\ UNCHANGED <<plVars, rpVars, exVars, cxVars, evVars, grVars, agVars>>

\* A StateMachine driven by arbitrary transition and register_hook calls.
SpecSM == InitSM /\ [][NextSM]_vars

NextHooks ==
    \/ HookedTransitionCall /\ UNCHANGED <<plVars, rpVars, exVars, cxVars, evVars, grVars, agVars>>
    \/ HookedRegisterCall /\ UNCHANGED <<plVars, rpVars, exVars, cxVars, evVars, grVars, agVars>>

\* A StateMachine with up to MaxRegistered hooks, registered at any moment,
\* returning or raising, driven by arbitrary transition calls.
SpecHooks == InitSM /\ [][NextHooks]_vars

(***************************************************************************)
(* Claims about the StateMachine, checked under SpecSM                     *)
(***************************************************************************)
\* The transition table as the specification gives it (section 4.1).
TableOfSpec ==
    [s \in AgentState |->
        CASE s = "idle" -> {"listening", "terminated"}
          [] s = "listening" -> {"understanding", "error_recovery", "idle"}
          [] s = "understanding" -> {"planning", "waiting_for_input", "error_recovery"}
          [] s = "planning" -> {"executing", "error_recovery", "waiting_for_input"}
          [] s = "executing" -> {"evaluating", "error_recovery", "waiting_for_input"}
          [] s = "evaluating" -> {"responding", "planning", "error_recovery"}
          [] s = "responding" -> {"idle", "listening", "waiting_for_input"}
          [] s = "waiting_for_input" -> {"listening", "idle", "terminated"}
          [] s = "error_recovery" ->
                {"error_recovery", "waiting_for_input", "idle", "responding", "terminated"}
          [] s = "terminated" -> {}]

\* The step is a transition(T, ...) call made in the current state.
IsTransitionCallTo(T) ==
    /\ sm_call'.op = "transition"
    /\ sm_call'.to_state = T
    /\ sm_call'.from_state = current_state

\* C1: a transition to a target T that differs from the current state S and is
\* not in S's allowed set raises InvalidStateTransitionError and changes
\* nothing: current_state, the history and the hooks fired stay as they were.
C1_InvalidTransitionRaises ==
    [][\A T \in AgentState :
          (IsTransitionCallTo(T) /\ T # current_state /\ T \notin TableOfSpec[current_state])
          => /\ sm_call'.result = "InvalidStateTransitionError"
             /\ current_state' = current_state
             /\ transition_history' = transition_history
             /\ hook_log' = hook_log
             /\ transition_hooks' = transition_hooks]_vars

\* C1 witness: an invalid transition was refused after the machine had moved
\* and with a hook registered.
C1_Witness ==
    /\ sm_call.op = "transition"
    /\ sm_call.result = "InvalidStateTransitionError"
    /\ sm_call.from_state = LISTENING
    /\ sm_call.to_state = TERMINATED
    /\ Len(transition_history) > 0
    /\ DOMAIN transition_hooks # {}

\* C2: the state-changing transitions accepted are exactly those of the table:
\* a call to a T listed for the current state S returns True, sets
\* current_state to T and appends exactly one record {S, T, trigger, metadata};
\* and the state never changes along an edge that is not in the table.
C2_TableTransitionsAccepted ==
    [][/\ \A T \in AgentState :
            (IsTransitionCallTo(T) /\ T # current_state /\ T \in TableOfSpec[current_state])
            => /\ sm_call'.result = "True"
               /\ current_state' = T
               /\ transition_history' =
                     Append(transition_history,
                            [from_state |-> current_state, to_state |-> T,
                             trigger |-> sm_call'.trigger,
                             metadata |-> IF sm_call'.metadata = None
                                          THEN "{}" ELSE sm_call'.metadata])
       /\ current_state' # current_state
            => current_state' \in TableOfSpec[current_state]]_vars

\* C2 witness: three table edges taken in a row, ending in WAITING_FOR_INPUT.
C2_Witness ==
    /\ Len(transition_history) >= 3
    /\ sm_call.op = "transition"
    /\ sm_call.result = "True"
    /\ sm_call.from_state = ERROR_RECOVERY
    /\ current_state = WAITING_FOR_INPUT

\* C3: a transition to the current state returns True and is a no-op: the
\* state, the history and the hooks fired are unchanged, on every repetition.
C3_SelfTransitionNoOp ==
    [][\A T \in AgentState :
          (IsTransitionCallTo(T) /\ T = current_state)
          => /\ sm_call'.result = "True"
             /\ current_state' = current_state
             /\ transition_history' = transition_history
             /\ hook_log' = hook_log]_vars

\* C3 witness: a self-transition was made in TERMINATED, which has no outgoing
\* edge, with a hook registered for entering it.
C3_Witness ==
    /\ sm_call.op = "transition"
    /\ sm_call.from_state = TERMINATED
    /\ sm_call.to_state = TERMINATED
    /\ sm_call.result = "True"
    /\ current_state = TERMINATED
    /\ HookEvent("pre", TERMINATED) \in DOMAIN transition_hooks

(***************************************************************************)
(* Claims about the Planner, checked under SpecPlanner and SpecReplan      *)
(***************************************************************************)
\* C5: for every oracle reply, create_plan returns a Plan with at least one
\* task and does not raise.
C5_CreatePlanAlwaysReturnsPlan ==
    pl_call.op = "create_plan"
    => /\ ~pl_call.result.raised
       /\ Len(pl_call.result.plan.tasks) >= 1

C7_CountsAndFailedStatus ==
    ex_pc = "returned"
    => /\ ex_results.tasks_completed + ex_results.tasks_failed <= Len(ex_plan.tasks)
       /\ ex_results.final_status = "failed" <=> ex_obs.fatal >= 1

\* A sweep that completed a task, had a recoverable failure and then ended on
\* a non-recoverable one.
C7_Witness ==
    /\ ex_pc = "returned"
    /\ ex_results.final_status = "failed"
    /\ ex_results.tasks_completed >= 1
    /\ ex_results.tasks_failed >= 2
    /\ ex_obs.fatal = 1

\* The task has a declared dependency id whose task is not COMPLETED: no
\* task of the plan carries the id, or the task the id identifies (the first
\* in list order that carries it; this may be the task itself) has another
\* status.
DependencyUnmet(task, plan) ==
    \E k \in 1..Len(task.dependencies) :
        \A j \in 1..Len(plan.tasks) :
            (/\ plan.tasks[j].id = task.dependencies[k]
             /\ \A h \in 1..(j - 1) : plan.tasks[h].id # task.dependencies[k])
            => plan.tasks[j].status # COMPLETED

\* C8: a task that has an unmet dependency at the moment the sweep reaches it
\* is marked BLOCKED in that pass, without being started and without its
\* tool being invoked; and a BLOCKED task stays BLOCKED, is never among the
\* tasks that took IN_PROGRESS and never among those whose tool was invoked.
C8_UnmetDependencyBlocks ==
    [][/\ (/\ ex_pc = "loop"
           /\ get_current_task(ex_plan) # 0
           /\ DependencyUnmet(ex_plan.tasks[get_current_task(ex_plan)], ex_plan))
          => /\ ex_plan'.tasks[get_current_task(ex_plan)].status = BLOCKED
             /\ ex_obs'.started = ex_obs.started
             /\ ex_obs'.invoked = ex_obs.invoked
             /\ ex_obs'.fatal = ex_obs.fatal
             /\ ex_pc' # "await"
       /\ ex_pc \in {"loop", "await"}
          => \A j \in 1..Len(ex_plan.tasks) :
                ex_plan.tasks[j].status = BLOCKED
                => /\ ex_plan'.tasks[j].status = BLOCKED
                   /\ \A n \in 1..Len(ex_obs'.started) : ex_obs'.started[n] # j
                   /\ \A n \in 1..Len(ex_obs'.invoked) : ex_obs'.invoked[n] # j
      ]_vars

\* A task was BLOCKED on a dependency listed after it, the dependency's tool
\* was then invoked and the dependency COMPLETED, and the sweep returned.
C8_Witness ==
    /\ ex_pc = "returned"
    /\ \E j, h \in 1..Len(ex_plan.tasks) :
          /\ j < h
          /\ ex_plan.tasks[j].status = BLOCKED
          /\ ex_plan.tasks[j].id # ex_plan.tasks[h].id
          /\ ex_plan.tasks[j].dependencies = <<ex_plan.tasks[h].id>>
          /\ ex_plan.tasks[h].status = COMPLETED
          /\ \E n \in 1..Len(ex_obs.invoked) : ex_obs.invoked[n] = h

(***************************************************************************)
(* Claims about AgentContext.update_profile, checked under SpecCtx         *)
(***************************************************************************)
\* C9: after update_profile(k, v), if k had an entry whose value differed
\* from v the new entry has contradiction_detected true and previous_value
\* equal to the old value and the call returned True; if k was unseen or the
\* stored value equalled v the new entry does not carry the flag and the call
\* returned False.
C9_ContradictionIffValueChanged ==
    cx_call.op = "update_profile"
    => IF cx_call.had_entry /\ cx_call.old_value # cx_call.value
       THEN /\ cx_profile[cx_call.key].contradiction_detected
            /\ cx_profile[cx_call.key].previous_value = cx_call.old_value
            /\ cx_profile[cx_call.key].value = cx_call.value
            /\ cx_call.returned
       ELSE /\ ~cx_profile[cx_call.key].contradiction_detected
            /\ cx_profile[cx_call.key].value = cx_call.value
            /\ ~cx_call.returned

\* A stored field was rewritten with another value and is flagged, while the
\* other field, written twice with one value, is not.
C9_Witness ==
    /\ cx_call.op = "update_profile"
    /\ cx_call.had_entry
    /\ cx_call.old_value # cx_call.value
    /\ cx_profile[cx_call.key].contradiction_detected
    /\ \E k \in DOMAIN cx_profile :
          k # cx_call.key /\ ~cx_profile[k].contradiction_detected

(***************************************************************************)
(* Claims about VoiceAgent.process_input, checked under SpecAgent          *)
(***************************************************************************)
\* C4: a process_input call on a valid session in which a failure was raised
\* (an exception that reached the except clauses of process_input, at
\* whatever stage) does not raise: it returns a response of type "error" with
\* requires_input true, the state machine has entered ERROR_RECOVERY during
\* the call and is in IDLE when the call ends.
C4_FailureGivesErrorResponse ==
    (ag_last.op = "process_input" /\ ag_last.failure # None)
    => /\ ag_last.outcome = "returned"
       /\ ag_last.type = "error"
       /\ ag_last.requires_input
       /\ \E n \in 1..Len(ag_last.entered) : ag_last.entered[n] = ERROR_RECOVERY
       /\ ag_last.final_state = IDLE

\* C10: a process_input call on a valid session that returns leaves the state
\* machine in IDLE or WAITING_FOR_INPUT, on every path.
C10_ReturnsInIdleOrWaiting ==
    (/\ ag_last.op = "process_input"
     /\ ag_last.outcome = "returned"
     /\ ag_last.type # "invalid_session")
    => ag_last.final_state \in {IDLE, WAITING_FOR_INPUT}

\* C11: within one process_input call replan is invoked at most once, and
\* execute_plan and evaluate at most twice each, whatever the evaluations
\* return; a call that has replanned never replans again.
C11_OneExtraCycle ==
    /\ \A s \in SessionIds :
          ag_calls[s] # NoCall
          => /\ ag_calls[s].invoked["replan"] <= 1
             /\ ag_calls[s].invoked["execute_plan"] <= 2
             /\ ag_calls[s].invoked["evaluate"] <= 2
             /\ ag_calls[s].invoked["execute_plan"] <= 1 + ag_calls[s].invoked["replan"]
             /\ ag_calls[s].invoked["evaluate"] <= 1 + ag_calls[s].invoked["replan"]
    /\ ag_last.op = "process_input"
          => /\ ag_last.invoked["replan"] <= 1
             /\ ag_last.invoked["execute_plan"] <= 2
             /\ ag_last.invoked["evaluate"] <= 2

\* C11 witness: a call whose second evaluation, made after a replan, asked
\* for replanning again has returned, having replanned once and executed
\* and evaluated twice.
C11_Witness ==
    /\ ag_last.op = "process_input"
    /\ ag_last.revised
    /\ ag_last.needs_replanning
    /\ ag_last.outcome = "returned"
    /\ ag_last.invoked["replan"] = 1
    /\ ag_last.invoked["execute_plan"] = 2
    /\ ag_last.invoked["evaluate"] = 2

\* C12: when process_input calls of two sessions are interleaved at their
\* suspension points, no call fails with an invalid transition: the first
\* thing to go wrong in a call is never an InvalidStateTransitionError.
C12_NoInvalidTransitionFromOtherSession ==
    ag_last.op = "process_input" => ag_last.failure # "InvalidStateTransitionError"

\* C13: a process_input whose input evaluate_input_quality flags makes no
\* oracle call and no tool call, adds no conversation turn and creates no
\* plan; it returns a retry_request that requires input, and the machine
\* has gone to LISTENING, ERROR_RECOVERY and WAITING_FOR_INPUT.
C13_UnreliableInputShortCircuits ==
    (/\ ag_last.op = "process_input"
     /\ ag_last.type # "invalid_session"
     /\ ~ag_last.is_reliable)
    => /\ \A what \in {"oracle", "tool", "add_turn", "create_plan"} :
             ag_last.invoked[what] = 0
       /\ ag_last.outcome = "returned"
       /\ ag_last.type = "retry_request"
       /\ ag_last.requires_input
       /\ ag_last.entered = <<LISTENING, ERROR_RECOVERY, WAITING_FOR_INPUT>>
       /\ ag_last.final_state = WAITING_FOR_INPUT

\* C13 witness: a call with a flagged input has returned its retry request,
\* for a session that already holds conversation turns.
C13_Witness ==
    /\ ag_last.op = "process_input"
    /\ ag_last.type = "retry_request"
    /\ ~ag_last.is_reliable
    /\ ag_sessions[ag_last.session].conversation_turns # <<>>

C15_ContradictionBlocksOneTurn ==
    \A s \in SessionIds : ag_asked[s].times <= 2

\* C16: a call in which create_plan has returned takes the clarification
\* short-circuit (PLANNING to WAITING_FOR_INPUT, type clarification,
\* execute_plan not invoked) if and only if create_plan flagged clarifying
\* questions in that same call.
C16_ShortCircuitIffPlannerFlagged ==
    (/\ ag_last.op = "process_input"
     /\ ag_last.invoked["create_plan"] = 1
     /\ ag_last.failure = None)
    => (ag_last.planner_flagged
        <=> /\ ag_last.type = "clarification"
            /\ ag_last.invoked["execute_plan"] = 0
            /\ ag_last.entered = <<LISTENING, UNDERSTANDING, PLANNING, WAITING_FOR_INPUT>>)

\* C17: every EvaluationResult evaluate returns has needs_replanning true
\* when its confidence is below the threshold, also when the oracle
\* reported success true and needs_replanning false; at or above the
\* threshold needs_replanning is the oracle's own value (false when the
\* oracle gave none).
C17_ConfidenceGateIsAuthoritative ==
    (ev_call.op = "evaluate" /\ ~ev_call.result.raised)
    => LET data == ev_call.parsed.data
           said == data.needs_replanning = "true"
       IN  /\ ev_call.result.confidence < 70 => ev_call.result.needs_replanning
           /\ ev_call.result.confidence >= 70
                => ev_call.result.needs_replanning = said

\* C17 witness: the oracle reported success true, needs_replanning false and
\* a confidence below the threshold, and evaluate returned its result.
C17_Witness ==
    /\ ev_call.op = "evaluate"
    /\ ~ev_call.result.raised
    /\ ev_call.parsed.data.success = "true"
    /\ ev_call.parsed.data.needs_replanning = "false"
    /\ ev_call.parsed.data.confidence = Confidence("number", 69)
    /\ ev_call.result.needs_replanning

\* C18: for every reply that cannot be parsed as a JSON object (text that
\* is not JSON, with or without a brace-delimited part, or JSON that is not
\* an object) evaluate does not raise and returns success false and
\* needs_replanning true.
C18_UnparsableReplyGivesDefault ==
    (/\ ev_call.op = "evaluate"
     /\ ~ev_call.answer.fails
     /\ LET direct == json_loads(ev_call.answer.reply.text, NoMembers)
        IN  ~(direct.ok /\ direct.is_dict))
    => /\ ~ev_call.result.raised
       /\ ev_call.result.success = FALSE
       /\ ev_call.result.needs_replanning = TRUE

\* The goal holds one of the eligibility cues, in any case, as a word or
\* inside a word.
GoalHasCue(goal) ==
    \E i \in 1..Len(goal) : goal[i] \in {"Apply", "apply", "reapplying", "eligibility"}

ReachesTask(i) ==
    /\ ex_pc = "loop"
    /\ ~ex_plan.is_complete
    /\ i = get_current_task(ex_plan)
    /\ i # 0
    /\ check_dependencies(ex_plan.tasks[i], ex_plan)

\* In this pass task i is marked FAILED and counted, the sweep returns with
\* final_status "failed", no tool is invoked and no other task changes.
FailsFatally(i) ==
    /\ ex_plan'.tasks[i].status = FAILED
    /\ ex_results'.tasks_failed = ex_results.tasks_failed + 1
    /\ ex_results'.final_status = "failed"
    /\ ex_pc' = "returned"
    /\ ex_obs'.invoked = ex_obs.invoked
    /\ \A j \in 1..Len(ex_plan.tasks) : j # i => ex_plan'.tasks[j] = ex_plan.tasks[j]

\* C20: when the sweep reaches a task that carries no tool_name, or whose
\* tool_name has no registered capability, the task is marked FAILED, the
\* sweep halts at once with final_status "failed", and no later task is
\* executed or changed.
C20_MissingToolNameIsFatal ==
    [][\A i \in 1..Len(ex_plan.tasks) :
          (/\ ReachesTask(i)
           /\ ex_plan.tasks[i].tool_name \notin RegisteredTools)
          => FailsFatally(i)
      ]_vars

\* C20 amended: a task whose tool_name is set and has no registered
\* capability is marked FAILED, the sweep halts at once with final_status
\* "failed" and no later task is executed or changed; a task that carries no
\* tool_name is started and COMPLETED as a reasoning step without a tool
\* call, is counted in tasks_completed, leaves final_status as it was, and
\* the sweep goes on to the next task.
C20_UnregisteredToolIsFatal ==
    [][\A i \in 1..Len(ex_plan.tasks) :
          /\ (/\ ReachesTask(i)
               /\ ex_plan.tasks[i].tool_name \notin RegisteredTools \cup {None, ""})
              => FailsFatally(i)
          /\ (/\ ReachesTask(i)
               /\ ex_plan.tasks[i].tool_name \in {None, ""})
              => /\ ex_plan'.tasks[i].status = COMPLETED
                 /\ ex_results'.tasks_completed = ex_results.tasks_completed + 1
                 /\ ex_results'.tasks_failed = ex_results.tasks_failed
                 /\ ex_results'.final_status = ex_results.final_status
                 /\ ex_obs'.invoked = ex_obs.invoked
                 /\ ex_obs'.started = Append(ex_obs.started, i)
                 /\ ex_pc' = "loop"
                 /\ ex_plan'.current_task_index = ex_plan.current_task_index + 1
      ]_vars

\* A sweep completed a task without tool_name, went on, and then halted on a
\* task whose tool is not registered, leaving the task after it PENDING.
C20_Witness ==
    /\ ex_pc = "returned"
    /\ ex_results.final_status = "failed"
    /\ Len(ex_plan.tasks) = 3
    /\ ex_plan.tasks[1].tool_name = None
    /\ ex_plan.tasks[1].status = COMPLETED
    /\ ex_plan.tasks[2].tool_name = "ghost"
    /\ ex_plan.tasks[2].status = FAILED
    /\ ex_plan.tasks[3].status = PENDING
    /\ ex_obs.started = <<1, 2>>
    /\ ex_obs.invoked = <<>>

(***************************************************************************)
(* Claims about the final status of a sweep, checked under SpecExec        *)
(***************************************************************************)
\* The failures of the sweep that were recoverable.
RecoverableFailures == ex_results.tasks_failed - ex_obs.fatal

\* C21: a recoverable task failure does not stop the sweep: the failed task
\* is counted, final_status is not touched, the plan advances by one and the
\* loop goes on to its next pass; and when the sweep has returned,
\* final_status is "partial_success" exactly when at least one recoverable
\* and no non-recoverable failure occurred, and "success" exactly when no
\* task failed (BLOCKED tasks and an empty plan included).
C21_RecoverableFailureContinues ==
    /\ [](ex_pc = "returned"
           => /\ ex_results.final_status = "partial_success"
                 <=> (RecoverableFailures >= 1 /\ ex_obs.fatal = 0)
              /\ ex_results.final_status = "success"
                 <=> ex_results.tasks_failed = 0)
    /\ [][(/\ ex_results'.tasks_failed = ex_results.tasks_failed + 1
            /\ ex_obs'.fatal = ex_obs.fatal)
           => /\ ex_pc' = "loop"
              /\ ex_results'.final_status = ex_results.final_status
              /\ ex_plan'.current_task_index = ex_plan.current_task_index + 1
              /\ ex_plan'.tasks[get_current_task(ex_plan)].status = FAILED
              /\ \A j \in 1..Len(ex_plan.tasks) :
                    j # get_current_task(ex_plan)
                    => ex_plan'.tasks[j] = ex_plan.tasks[j]
          ]_vars

\* A sweep whose first task failed recoverably, whose second task was
\* BLOCKED and whose third task was then executed and COMPLETED, returned
\* "partial_success".
C21_Witness ==
    /\ ex_pc = "returned"
    /\ ex_results.final_status = "partial_success"
    /\ Len(ex_plan.tasks) = 3
    /\ ex_plan.tasks[1].status = FAILED
    /\ ex_plan.tasks[2].status = BLOCKED
    /\ ex_plan.tasks[3].status = COMPLETED
    /\ ex_obs.invoked = <<1, 3>>
    /\ ex_obs.fatal = 0

(***************************************************************************)
(* Claims about the transition hooks, checked under SpecHooks              *)
(***************************************************************************)
\* The step is a valid, state-changing transition call to T.
IsValidTransitionTo(T) ==
    /\ IsTransitionCallTo(T)
    /\ T # current_state
    /\ T \in TableOfSpec[current_state]

\* The callbacks registered for an event before the step, in registration
\* order.
RegisteredFor(phase, state) ==
    IF <<phase, state>> \in DOMAIN transition_hooks
    THEN transition_hooks[<<phase, state>>]
    ELSE <<>>

\* C22: on a valid transition from S to T the hook calls made are exactly:
\* the hooks registered for pre_<T>, in registration order, each seeing
\* current_state still S and the history without the new record; then the
\* hooks registered for post_<S>, in registration order, each seeing
\* current_state T and the history with the record appended.  No hook of any
\* other event is called.
C22_HooksRunAroundTheChange ==
    [][\A T \in AgentState :
          IsValidTransitionTo(T)
          => LET pre == RegisteredFor("pre", T)
                 post == RegisteredFor("post", current_state)
                 n == Len(hook_log)
             IN  /\ Len(hook_log') = n + Len(pre) + Len(post)
                 /\ SubSeq(hook_log', 1, n) = hook_log
                 /\ \A i \in 1..Len(pre) :
                       hook_log'[n + i] =
                           [event |-> <<"pre", T>>, hook |-> pre[i],
                            state |-> current_state,
                            history_len |-> Len(transition_history)]
                 /\ \A i \in 1..Len(post) :
                       hook_log'[n + Len(pre) + i] =
                           [event |-> <<"post", current_state>>, hook |-> post[i],
                            state |-> T,
                            history_len |-> Len(transition_history) + 1]
      ]_vars

\* The machine went IDLE -> LISTENING -> UNDERSTANDING with a pre_listening,
\* a post_idle and a post_listening hook registered from the start: the
\* first transition ran pre_listening and then post_idle, and the second ran
\* post_listening, which the first had not run.
C22_Witness ==
    /\ current_state = UNDERSTANDING
    /\ Len(transition_history) = 2
    /\ DOMAIN transition_hooks = {<<"pre", LISTENING>>, <<"post", IDLE>>, <<"post", LISTENING>>}
    /\ Len(hook_log) = 3
    /\ hook_log[1].event = <<"pre", LISTENING>> /\ hook_log[1].state = IDLE
    /\ hook_log[2].event = <<"post", IDLE>> /\ hook_log[2].state = LISTENING
    /\ hook_log[3].event = <<"post", LISTENING>> /\ hook_log[3].state = UNDERSTANDING

\* C23: a hook that raises does not change the outcome of a valid
\* transition: every hook registered for pre_<T> and for post_<S> is still
\* called, those after a raising one included; current_state becomes T,
\* exactly one record is appended, and transition returns True.
C23_RaisingHookChangesNothing ==
    [][\A T \in AgentState :
          IsValidTransitionTo(T)
          => LET pre == RegisteredFor("pre", T)
                 post == RegisteredFor("post", current_state)
                 n == Len(hook_log)
             IN  /\ sm_call'.result = "True"
                 /\ current_state' = T
                 /\ Len(transition_history') = Len(transition_history) + 1
                 /\ SubSeq(transition_history', 1, Len(transition_history)) = transition_history
                 /\ transition_history'[Len(transition_history')].from_state = current_state
                 /\ transition_history'[Len(transition_history')].to_state = T
                 /\ [i \in 1..(Len(hook_log') - n) |-> hook_log'[n + i].hook] = pre \o post
      ]_vars

\* A transition whose first pre-hook raised: the pre-hook registered after
\* it and the post-hook, which raised too, were still called, the state
\* changed and the call returned True.
C23_Witness ==
    /\ sm_call.op = "transition"
    /\ sm_call.result = "True"
    /\ current_state = LISTENING
    /\ Len(transition_history) = 1
    /\ Len(hook_log) = 3
    /\ hook_log[1].hook = "hook_raises" /\ hook_log[1].event = <<"pre", LISTENING>>
    /\ hook_log[2].hook = "hook_ok" /\ hook_log[2].event = <<"pre", LISTENING>>
    /\ hook_log[3].hook = "hook_raises" /\ hook_log[3].event = <<"post", IDLE>>

(***************************************************************************)
(* Claims about the transition history, checked under SpecSM               *)
(***************************************************************************)
\* Every entry of the history is an edge of the table between two different
\* states, every entry starts where the one before it ended, and the last
\* entry ends in current_state.
HistoryIsFaithful ==
    /\ \A i \in 1..Len(transition_history) :
          /\ transition_history[i].from_state # transition_history[i].to_state
          /\ transition_history[i].to_state
                 \in TableOfSpec[transition_history[i].from_state]
    /\ \A i \in 2..Len(transition_history) :
          transition_history[i].from_state = transition_history[i - 1].to_state
    /\ Len(transition_history) > 0
          => transition_history[Len(transition_history)].to_state = current_state

\* C24: the transition history is an append-only faithful log.  After any
\* sequence of valid, invalid and same-state transition calls every entry is
\* an edge of the table with from_state # to_state, every entry starts in the
\* state the entry before it ended in, and the last entry ends in
\* current_state; and no call changes, reorders or removes an entry that was
\* recorded before it.
C24_HistoryIsAppendOnlyLog ==
    /\ []HistoryIsFaithful
    /\ [][/\ Len(transition_history') >= Len(transition_history)
           /\ SubSeq(transition_history', 1, Len(transition_history)) = transition_history
          ]_vars

\* Three transitions were recorded and the call after them was rejected.
C24_Witness ==
    /\ Len(transition_history) = 3
    /\ sm_call.op = "transition"
    /\ sm_call.result = "InvalidStateTransitionError"
    /\ sm_call.from_state = current_state
    /\ transition_history[3].to_state = current_state
    /\ transition_history[1].from_state = IDLE

(***************************************************************************)
(* Claims about evaluate_input_quality, checked under SpecInputQuality     *)
(***************************************************************************)
\* The three conditions of the statement, on the text and the confidence of
\* the call: the confidence is below 0.5; the text has fewer than two tokens
\* and, lowered, is not a phrase of the allow-list; more than two pairs of
\* adjacent tokens are equal.
ConditionsOf(text, confidence) ==
    (IF confidence < 50 THEN {"low_confidence"} ELSE {})
    \cup (IF /\ Len(text) <= 1
             /\ \A phrase \in allow_short_intents :
                   \/ Len(phrase) # Len(text)
                   \/ \E i \in 1..Len(text) : lower(text[i]) # phrase[i]
          THEN {"too_short"} ELSE {})
    \cup (IF \E a, b, c \in 1..(Len(text) - 1) :
                /\ a < b /\ b < c
                /\ text[a] = text[a + 1]
                /\ text[b] = text[b + 1]
                /\ text[c] = text[c + 1]
          THEN {"potential_error"} ELSE {})

\* C25: evaluate_input_quality returns is_reliable true exactly when none of
\* the three conditions holds, and its issues list holds exactly the types of
\* the conditions that hold, each once; the one-token text "hi" is unreliable
\* with too_short, and the allow-listed one-token text "help" is not flagged
\* too_short.
C25_IssuesAreTheConditionsThatHold ==
    ev_call.op = "evaluate_input_quality"
    => LET conditions == ConditionsOf(ev_call.text, ev_call.confidence)
           issues == ev_call.result.issues
       IN  /\ ev_call.result.is_reliable <=> conditions = {}
           /\ {issues[i] : i \in 1..Len(issues)} = conditions
           /\ Len(issues) = Cardinality(conditions)
           /\ ev_call.text = <<"hi">>
                 => /\ ~ev_call.result.is_reliable
                    /\ \E i \in 1..Len(issues) : issues[i] = "too_short"
           /\ ev_call.text = <<"help">>
                 => \A i \in 1..Len(issues) : issues[i] # "too_short"

\* The text "hi hi hi hi", heard with confidence 0.49, has three pairs of
\* repeated words: it was found unreliable with low_confidence and
\* potential_error, and not with too_short.
C25_Witness ==
    /\ ev_call.op = "evaluate_input_quality"
    /\ ev_call.text = <<"hi", "hi", "hi", "hi">>
    /\ ev_call.confidence = 49
    /\ ~ev_call.result.is_reliable
    /\ ev_call.result.issues = <<"low_confidence", "potential_error">>

(***************************************************************************)
(* Claims about resolve_contradiction, checked under SpecResolve           *)
(***************************************************************************)
\* The step is a resolve_contradiction(context, k, v) call.
IsResolveCall(k, v) ==
    /\ cx_call'.op = "resolve_contradiction"
    /\ cx_call'.key = k
    /\ cx_call'.value = v
    /\ cx_call'.had_entry <=> k \in DOMAIN cx_profile

\* C26: resolve_contradiction(context, k, v) on a field k present in the
\* profile returns True and overwrites the entry with value v, source
\* "user_confirmed" and contradiction_detected false, leaving the other
\* fields alone, so that the contradiction check no longer reports k; on a
\* field k absent from the profile it returns False and leaves the profile
\* unchanged.
C26_ResolveOverwritesAndClears ==
    [][\A k \in ProfileKeys, v \in ProfileValues :
          IsResolveCall(k, v)
          => IF k \in DOMAIN cx_profile
             THEN /\ cx_call'.returned
                  /\ DOMAIN cx_profile' = DOMAIN cx_profile
                  /\ cx_profile'[k].value = v
                  /\ cx_profile'[k].source = "user_confirmed"
                  /\ ~cx_profile'[k].contradiction_detected
                  /\ k \notin reported_fields(cx_profile')
                  /\ \A j \in DOMAIN cx_profile : j # k => cx_profile'[j] = cx_profile[j]
             ELSE /\ ~cx_call'.returned
                  /\ cx_profile' = cx_profile
      ]_vars

\* A flagged field was resolved with the value it had before the
\* contradiction: it is no longer reported, while the other field, flagged
\* too, still is.
C26_Witness ==
    /\ cx_call.op = "resolve_contradiction"
    /\ cx_call.returned
    /\ cx_call.old_value # cx_call.value
    /\ cx_profile[cx_call.key].source = "user_confirmed"
    /\ reported_fields(cx_profile) = DOMAIN cx_profile \ {cx_call.key}
    /\ Cardinality(DOMAIN cx_profile) = 2

(***************************************************************************)
(* Claims about _generate_response, checked under SpecResponse             *)
(***************************************************************************)
\* The reply has empty text (the reply itself is empty, or its "response"
\* member is missing, null, empty or blank) or is a known placeholder echo.
ReplyIsEmptyOrPlaceholder(reply) ==
    \/ reply.json = "empty"
    \/ /\ reply.json = "object"
       /\ reply.response \in {Absent, "null", "", "blank",
                              "Your response to the user",
                              "<Your Response To The User>"}

\* C27: when the oracle's reply at response generation has empty text or is a
\* known placeholder echo, the response returned is the deterministic
\* fallback built from the tool results in the context: it lists the first
\* three eligible schemes at most, else the first three retrieved schemes at
\* most, else it is the default clarification; and requires_input is true.
C27_EmptyReplyGivesFallback ==
    (gr_call.op = "generate_response" /\ ReplyIsEmptyOrPlaceholder(gr_call.reply))
    => /\ gr_call.result.origin = "fallback"
       /\ gr_call.result.requires_input
       /\ Len(gr_call.result.names) <= 3
       /\ IF Len(gr_call.eligible) > 0
          THEN /\ gr_call.result.heading = "eligible"
               /\ \A i \in 1..Len(gr_call.result.names) :
                     gr_call.result.names[i] = gr_call.eligible[i]
          ELSE IF Len(gr_call.retrieved) > 0
          THEN /\ gr_call.result.heading = "retrieved"
               /\ \A i \in 1..Len(gr_call.result.names) :
                     gr_call.result.names[i] = gr_call.retrieved[i]
          ELSE /\ gr_call.result.heading = "default_clarification"
               /\ gr_call.result.type = "clarification"

(***************************************************************************)
(* Claims about replanning over a conversation, checked under              *)
(* SpecAgentReplanning                                                     *)
(***************************************************************************)
\* C28: over any sequence of process_input calls on one session the total
\* number of replans performed never exceeds max_planning_iterations.
C28_ReplansBoundedAcrossConversation ==
    ReplansPerformed <= max_planning_iterations

(***************************************************************************)
(* Claims about the stage order of a call, checked under SpecAgent         *)
(***************************************************************************)
\* The stages in their order, without and with the one extra cycle.
StageOrders ==
    {<<LISTENING, UNDERSTANDING, PLANNING, EXECUTING, EVALUATING, RESPONDING>>,
     <<LISTENING, UNDERSTANDING, PLANNING, EXECUTING, EVALUATING,
       PLANNING, EXECUTING, EVALUATING, RESPONDING>>}

\* The ways a call leaves the stages: to IDLE, to WAITING_FOR_INPUT, or to
\* ERROR_RECOVERY, from which the handler goes on to IDLE or to
\* WAITING_FOR_INPUT.
StageExits ==
    {<<IDLE>>, <<WAITING_FOR_INPUT>>, <<ERROR_RECOVERY>>,
     <<ERROR_RECOVERY, IDLE>>, <<ERROR_RECOVERY, WAITING_FOR_INPUT>>}

\* The states entered are a prefix of the stage order followed by an exit.
FollowsStageOrder(entered) ==
    \E order \in StageOrders, exit \in StageExits :
        /\ Len(entered) >= Len(exit)
        /\ Len(entered) - Len(exit) <= Len(order)
        /\ SubSeq(entered, Len(entered) - Len(exit) + 1, Len(entered)) = exit
        /\ \A n \in 1..(Len(entered) - Len(exit)) : entered[n] = order[n]

\* C29: the states a process_input call on a valid session has entered when
\* it ends are a prefix of LISTENING, UNDERSTANDING, PLANNING, EXECUTING,
\* EVALUATING, (PLANNING, EXECUTING, EVALUATING once more), RESPONDING,
\* followed by an exit to IDLE, WAITING_FOR_INPUT or ERROR_RECOVERY; and
\* while a call is suspended in create_plan or replan the state is PLANNING,
\* in a tool call EXECUTING, in evaluate EVALUATING.
C29_CallFollowsStageOrder ==
    /\ (ag_last.op = "process_input" /\ ag_last.type # "invalid_session")
       => FollowsStageOrder(ag_last.entered)
    /\ \A s \in SessionIds :
          ag_calls[s] # NoCall
          => /\ ag_calls[s].pc \in {"create_plan", "replan"} => current_state = PLANNING
             /\ ag_calls[s].pc = "tool_execute" => current_state = EXECUTING
             /\ ag_calls[s].pc = "evaluate" => current_state = EVALUATING

\* The positions of the tasks of the plan that are IN_PROGRESS.
TasksInProgress ==
    {i \in 1..Len(ex_plan.tasks) : ex_plan.tasks[i].status = IN_PROGRESS}

\* Each position of the sequence is greater than the one before it.
StrictlyIncreasing(positions) ==
    \A m, n \in 1..Len(positions) : m < n => positions[m] < positions[n]

\* C30: during execute_plan at most one task of the plan is IN_PROGRESS at any
\* moment, and it is the task whose tool is awaited; tasks are started and
\* tools are invoked in strictly increasing list position, whatever the
\* dependencies say: no task is started after a task behind it in the list.
C30_OneTaskAtATimeInListOrder ==
    /\ Cardinality(TasksInProgress) <= 1
    /\ ex_pc = "await" => TasksInProgress = {get_current_task(ex_plan)}
    /\ ex_pc # "await" => TasksInProgress = {}
    /\ StrictlyIncreasing(ex_obs.started)
    /\ StrictlyIncreasing(ex_obs.invoked)

\* A tool is awaited for a task after the tool of an earlier task has raised
\* and a task between them was skipped, its dependency being a later task.
C30_Witness ==
    /\ ex_pc = "await"
    /\ ex_obs.invoked = <<1, 3>>
    /\ ex_plan.tasks[1].status = FAILED
    /\ ex_plan.tasks[2].status = BLOCKED
    /\ ex_plan.tasks[3].status = IN_PROGRESS
    /\ ex_plan.tasks[2].dependencies = <<"b", "z">>
    /\ ex_plan.tasks[3].id = "b"

\* The task at position i depends on a task the plan lists after it.
DependsOnLaterTask(i) ==
    \E k \in 1..Len(ex_plan.tasks[i].dependencies) :
        first_with_id(ex_plan.tasks, ex_plan.tasks[i].dependencies[k]) > i

\* The sweep has gone past the task at position i.
WentPast(i) == ex_plan.current_task_index >= i

\* C31: a task that depends on a task listed after it is BLOCKED for good: it
\* is BLOCKED once the sweep has gone past it, it is never started, a BLOCKED
\* task stays BLOCKED whatever completes later, and it is BLOCKED when
\* execute_plan returns.
C31_DependentBeforeDependencyStaysBlocked ==
    /\ [](\A i \in 1..Len(ex_plan.tasks) :
              DependsOnLaterTask(i) =>
                  /\ ex_plan.tasks[i].status = (IF WentPast(i) THEN BLOCKED ELSE PENDING)
                  /\ \A m \in 1..Len(ex_obs.started) : ex_obs.started[m] # i)
    /\ [][\A i \in 1..Len(ex_plan.tasks) :
              ex_plan.tasks[i].status = BLOCKED => ex_plan'.tasks[i].status = BLOCKED]_vars

\* execute_plan has returned with the dependent BLOCKED and the dependency,
\* listed after it, COMPLETED in the same sweep.
C31_Witness ==
    /\ ex_pc = "returned"
    /\ Len(ex_plan.tasks) = 2
    /\ ex_plan.tasks[1].dependencies = <<"b", "z">>
    /\ ex_plan.tasks[2].id = "b"
    /\ DependsOnLaterTask(1)
    /\ ex_plan.tasks[1].status = BLOCKED
    /\ ex_plan.tasks[2].status = COMPLETED

\* execute_plan has ended: it has returned, or an exception has left it.
ExecutePlanEnded == ex_pc \in {"returned", "raised"}

HasDistinctTaskIds(plan) ==
    \A m, n \in 1..Len(plan.tasks) : m # n => plan.tasks[m].id # plan.tasks[n].id

\* C33: every Plan create_plan returns has pairwise distinct task ids,
\* whatever task list the oracle supplied (ids repeated or left out).
C33_TaskIdsAreDistinct ==
    (pl_call.op = "create_plan" /\ ~pl_call.result.raised)
        => HasDistinctTaskIds(pl_call.result.plan)

\* The positions of the tasks of the plan that have the status.
TasksWithStatus(status) ==
    {i \in 1..Len(ex_plan.tasks) : ex_plan.tasks[i].status = status}

\* The positions the loop body ran for.
VisitedTasks == {ex_obs.visited[m] : m \in 1..Len(ex_obs.visited)}

\* The status task_results records for a task of that TaskStatus.
RecordedAs(status) ==
    CASE status = COMPLETED -> "success"
      [] status = FAILED -> "failed"
      [] status = BLOCKED -> "blocked"
      [] OTHER -> None

\* C34: when execute_plan returns no task is IN_PROGRESS: the tasks visited
\* are COMPLETED, FAILED or BLOCKED and the others are still PENDING;
\* tasks_completed and tasks_failed count the COMPLETED and the FAILED tasks,
\* and task_results has one entry for each visited task, in visit order.
C34_ResultsAccountForEveryVisit ==
    ex_pc = "returned" =>
        /\ TasksWithStatus(IN_PROGRESS) = {}
        /\ \A i \in 1..Len(ex_plan.tasks) :
               IF i \in VisitedTasks
               THEN ex_plan.tasks[i].status \in {COMPLETED, FAILED, BLOCKED}
               ELSE ex_plan.tasks[i].status = PENDING
        /\ ex_results.tasks_completed = Cardinality(TasksWithStatus(COMPLETED))
        /\ ex_results.tasks_failed = Cardinality(TasksWithStatus(FAILED))
        /\ Len(ex_results.task_results) = Len(ex_obs.visited)
        /\ \A m \in 1..Len(ex_obs.visited) :
               LET task == ex_plan.tasks[ex_obs.visited[m]]
               IN  /\ ex_results.task_results[m].task_id = task.id
                   /\ ex_results.task_results[m].status = RecordedAs(task.status)

\* The call has returned after a fatal failure on the second task: one task
\* COMPLETED, one FAILED and one never visited.
C34_Witness ==
    /\ ex_pc = "returned"
    /\ Len(ex_plan.tasks) = 3
    /\ ex_obs.visited = <<1, 2>>
    /\ ex_plan.tasks[1].status = COMPLETED
    /\ ex_plan.tasks[2].status = FAILED
    /\ ex_plan.tasks[3].status = PENDING
    /\ ex_results.tasks_completed = 1
    /\ ex_results.tasks_failed = 1

\* The transitions recorded at positions m < n of the history: the machine
\* entered ERROR_RECOVERY and a later call entered LISTENING.
ListensAfterError ==
    \E m, n \in 1..Len(transition_history) :
        /\ m < n
        /\ transition_history[m].to_state = ERROR_RECOVERY
        /\ transition_history[n].to_state = LISTENING

\* C35: no sequence of create_session, process_input and end_session calls
\* puts the state machine in TERMINATED, and whenever no call is running the
\* machine is in a state a new process_input can enter LISTENING from.
C35_NeverTerminated ==
    /\ current_state # TERMINATED
    /\ \A i \in 1..Len(transition_history) :
           transition_history[i].to_state # TERMINATED
    /\ Quiet => can_transition(current_state, LISTENING)

\* A call failed and was taken through ERROR_RECOVERY, the session was ended
\* and another call has entered LISTENING since.
C35_Witness ==
    /\ ListensAfterError
    /\ \E i \in 1..Len(transition_history) :
           transition_history[i].trigger = "session_ended"

\* The field carries contradiction_detected = true in the profile.
IsFlagged(profile, k) ==
    k \in DOMAIN profile /\ profile[k].contradiction_detected

\* C36: once a profile field carries contradiction_detected = true, the flag
\* and its previous_value are cleared only by resolve_contradiction for that
\* field: no update_profile call, whatever value it writes, removes them.
C36_OnlyResolveClearsTheFlag ==
    [][\A k \in ProfileKeys :
          (IsFlagged(cx_profile, k) /\ cx_call'.op = "update_profile")
          => /\ IsFlagged(cx_profile', k)
             /\ cx_profile'[k].previous_value # Absent
      ]_vars

\* The conversation_turns of the session end with the 'user' turn and the
\* 'assistant' turn of one call.
EndsWithUserThenAssistant(turns) ==
    /\ Len(turns) >= 2
    /\ turns[Len(turns) - 1] = "user"
    /\ turns[Len(turns)] = "assistant"

\* C37: every process_input call that returns a response of type 'response'
\* has appended the response as an 'assistant' turn to the conversation_turns
\* of its session, after the 'user' turn of the same call, on the replanning
\* path as on the path without replanning.
C37_ResponseIsRecordedAsTurn ==
    (/\ Quiet
     /\ ag_last.op = "process_input"
     /\ ag_last.outcome = "returned"
     /\ ag_last.type = "response")
        => EndsWithUserThenAssistant(ag_sessions[ag_last.session].conversation_turns)

\* C38: a replan call that raises PlanningLimitExceeded leaves the plans the
\* caller holds as they were, the revision_count of the original plan
\* included, so that repeating the refused call changes nothing.
C38_RefusedReplanChangesNothing ==
    [][(rp_call'.op = "replan" /\ rp_call'.error = "PlanningLimitExceeded")
          => rp_plans' = rp_plans]_vars

\* The step is a call made while no process_input is running and ended with
\* none running: create_session, end_session, or a process_input that ran
\* without awaiting anything.
IsCallBetweenCalls(op) ==
    /\ Quiet
    /\ Quiet'
    /\ ag_last'.op = op

\* C39: end_session(session_id) called between process_input calls, whatever
\* path the last one took, or before the first one, never raises: the
\* session is no longer in the agent and the machine is in IDLE; a later
\* process_input for the ended id returns the invalid-session error without
\* a state transition, an oracle call or a tool call.
C39_EndSessionBetweenCalls ==
    [][/\ IsCallBetweenCalls("end_session")
          => /\ ag_last'.outcome = "returned"
             /\ current_state' = IDLE
             /\ ag_sessions'[ag_last'.session].status # "active"
       /\ (IsCallBetweenCalls("process_input")
           /\ ag_sessions[ag_last'.session].status = "ended")
          => /\ ag_last'.outcome = "returned"
             /\ ag_last'.type = "invalid_session"
             /\ ag_last'.entered = <<>>
             /\ ag_last'.invoked = NothingInvoked
             /\ UNCHANGED <<smVars, ag_sessions>>
      ]_vars

\* A session was ended while the machine was in RESPONDING, where the call
\* before had left it, and a process_input for the ended id has returned the
\* invalid-session error.
C39_Witness ==
    /\ ag_last.op = "process_input"
    /\ ag_last.type = "invalid_session"
    /\ ag_sessions[ag_last.session].status = "ended"
    /\ current_state = IDLE
    /\ Len(transition_history) >= 1
    /\ transition_history[Len(transition_history)].trigger = "session_ended"
    /\ transition_history[Len(transition_history)].from_state = RESPONDING

====
